---- MODULE Spec2Model ----
(***************************************************************************)
(* Session / stream orchestration and human-in-the-loop tool-call handoff  *)
(* of the cross-request resumable CopilotAgent (module-level registries    *)
(* pendingToolCalls, sessionCache, activeObservers).                       *)
(*                                                                         *)
(* A Run is one subscription of the Observable returned by run(input).     *)
(* JavaScript runs to completion: each action below is one synchronous     *)
(* block of the code (plus the microtasks it alone queues); the places     *)
(* where a Run really waits for I/O (listSessions, createSession /         *)
(* resumeSession) are separate program positions.                          *)
(***************************************************************************)
EXTENDS Integers, Sequences, FiniteSets, TLC

\* ---------------------------------------------------------------- bounds
MaxRuns == 3
NumThreads == 2
MaxToolCalls == 2
MaxDeltas == 1
MaxMsgs == 2
OverlapRuns == 2
MaxFaults == 1
MaxOps == 2
MaxUpdates == 1
StateRuns == 1
MaxMerges == 2
MaxClassifyMsgs == 3
MaxDeletes == 1
AdminRuns == 2
LifeRuns == 2
ServerRuns == 2
ResumeRuns == 2
SeedRuns == 2
LazyRuns == 3
TextRuns == 2
IsoRuns == 3
MaxTextDeltas == 3

Runs == 1..MaxRuns
Threads == 1..NumThreads
ToolCallIds == 1..MaxToolCalls
None == 0

ToolNames == {"fetch_weather"}
Prompts == {"hello"}
Results == {"18C"}

\* the shared state: a document with top-level keys; Absent marks a key the
\* document does not have
Keys == {"title", "servings"}
Values == {"soup", "stew"}
Absent == "absent"
Docs == [Keys -> Values \cup {Absent}]
EmptyDoc == [k \in Keys |-> Absent]

\* RunAgentInput.state, which a request may leave out
StateOf(doc) == [defined |-> TRUE, doc |-> doc]
NoState == [defined |-> FALSE, doc |-> EmptyDoc]

\* JSON Patch operations as the model passes them to update_state; "" is a
\* missing op or path, Undefined a missing value
Undefined == "undefined"
PathOf == [k \in Keys |-> <<"/", k>>]
NoPath == <<>>
Paths == {PathOf["title"], NoPath}
Operations ==
    [op : {"add", "remove", "replace", ""},
     path : Paths,
     value : Values \cup {Undefined}]
Batches == UNION {[1..n -> Operations] : n \in 0..MaxOps}

NoActive == [observer |-> None, runId |-> None]
NoInput == [threadId |-> None, isToolResultRequest |-> FALSE, toolCallId |-> None,
            toolResult |-> "", userPrompt |-> "", tools |-> {}, state |-> NoState]
\* values a failing call can throw: an Error with a message, or something
\* that is not an Error
ErrorValue(m) == [isError |-> TRUE, message |-> m]
NonError == [isError |-> FALSE, message |-> ""]
Thrown == {ErrorValue("connect ECONNREFUSED"), NonError}
NoError == [isError |-> FALSE, message |-> "nothing thrown"]

\* what an update_state call returns: {success, message | error}; op and
\* count are the values interpolated into the text
Success(m, count) == [success |-> TRUE, text |-> m, op |-> "", count |-> count]
Failure(m, op) == [success |-> FALSE, text |-> m, op |-> op, count |-> 0]

\* a batch with an operation that lacks its kind or its path, or an add /
\* replace that lacks its value
Malformed(operations) ==
    \E i \in 1..Len(operations) :
        \/ operations[i].op = ""
        \/ operations[i].path = NoPath
        \/ operations[i].op \in {"add", "replace"} /\ operations[i].value = Undefined

NoUpdate == [n |-> 0, session |-> None, malformed |-> FALSE, prefix |-> FALSE,
             failsAt |-> 0,
             before |-> EmptyDoc,
             updates |-> EmptyDoc, emitted |-> FALSE, delta |-> <<>>,
             result |-> Failure("not called", "")]

NoHandler == [state |-> "unused", session |-> None, result |-> ""]

\* a response nothing was written to: status 0 is a head not yet written, body
\* the chunks written, endedBy the callback that ended the response
NoResponse == [status |-> 0, body |-> <<>>, ended |-> FALSE, endedBy |-> ""]

\* no send call yet: binding is the thread's entry in the Active Stream
\* registry and attached tells whether the Run's listeners were on the session
NoSent == [called |-> FALSE, binding |-> NoActive, attached |-> FALSE]

\* no DELETE request yet: n counts the requests, responses are the replies
\* written for the current one, cached is the thread's cached session and
\* started the Runs begun when the reply was written
NoDelete == [n |-> 0, pc |-> "none", sessionId |-> None, found |-> FALSE,
             failedAt |-> "", thrown |-> NoError, responses |-> <<>>, cached |-> None,
             started |-> {}]

VARIABLES
    input,            \* run -> what run(input) derived from its input
    pc,               \* run -> position of the Run's asynchronous body
    obs,              \* run -> state of the Run's rxjs subscriber
    stream,           \* run -> events delivered to the Run's consumer
    pendingToolCalls, \* tool-call ids registered in the module-level map
    sessionCache,     \* thread -> cached session (None if absent)
    activeObservers,  \* thread -> {observer, runId} binding
    sessKind,         \* session -> "none" | "created" | "resumed"
    listed,           \* threads the client's session lister reports
    existing,         \* run -> result of its listSessions lookup
    turns,            \* session -> accepted prompts whose turn is not yet idle
    handler,          \* tool-call id -> state of the tool handler invocation
    deltaL,           \* session -> Runs with an assistant.message_delta listener
    idleL,            \* session -> Runs with a session.idle listener
    nDeltas,          \* deltas emitted so far by all sessions
    sendCount,        \* run -> number of session.send calls it made
    sentPrompt,       \* run -> the prompt it passed to session.send
    got,              \* run -> session the Run subscribed to (None if none)
    resolved,         \* run -> tool-call id whose pending entry it resolved
    attachedAtResolve,\* run -> were its listeners attached when it resolved
    resolveCalls,     \* tool-call id -> number of pending.resolve calls
    idleSaw,          \* run -> state of its subscriber when its idle listener ran
    thrown,           \* run -> the value its execute / executeFallback caught
    localState,       \* session -> the state mirror held by its update_state tool
    clientState,      \* thread -> the client's copy of the shared state
    upd,              \* the latest update_state call: its input and outcome
    request,          \* the message list of the request whose classification is followed
    del,              \* the DELETE /agent/:sessionId request in progress or last served
    session,          \* run -> `this.session` of the explicit-lifetime agent serving it
    res,              \* run -> the HTTP response of the POST /agent request behind it
    sentWith          \* run -> the binding and listeners in place when it called send

vars == <<input, pc, obs, stream, pendingToolCalls, sessionCache,
          activeObservers, sessKind, listed, existing, turns, handler,
          deltaL, idleL, nDeltas, sendCount, sentPrompt, got, resolved,
          attachedAtResolve, resolveCalls, idleSaw, thrown,
          localState, clientState, upd, request, del, session, res, sentWith>>

\* ------------------------------------------------------------- messages
\* a message's content is a string or an array of parts; isArray tells which,
\* content holds the string and parts the array
TextPart(t) == [type |-> "text", text |-> t]
ImagePart == [type |-> "binary", text |-> ""]

UserMsg(p) ==
    [role |-> "user", toolCallId |-> None, content |-> p, isArray |-> FALSE, parts |-> <<>>]
UserPartsMsg(parts) ==
    [role |-> "user", toolCallId |-> None, content |-> "", isArray |-> TRUE, parts |-> parts]
ToolMsg(id, c) ==
    [role |-> "tool", toolCallId |-> id, content |-> c, isArray |-> FALSE, parts |-> <<>>]
AssistantMsg ==
    [role |-> "assistant", toolCallId |-> None, content |-> "ok", isArray |-> FALSE,
     parts |-> <<>>]

Messages == {UserMsg(p) : p \in Prompts}
            \cup {ToolMsg(id, c) : id \in ToolCallIds, c \in Results}
            \cup {AssistantMsg}

MessageLists == UNION {[1..n -> Messages] : n \in 0..MaxMsgs}

SetMax(S) == CHOOSE x \in S : \A y \in S : y <= x

\* mutant: the first user or tool message decides, not the last
lastUserMsg_First(messages) ==
    LET idx == {i \in 1..Len(messages) : messages[i].role \in {"user", "tool"}}
    IN IF idx = {} THEN [role |-> "undefined", toolCallId |-> None, content |-> "",
                         isArray |-> FALSE, parts |-> <<>>]
       ELSE messages[CHOOSE i \in idx : \A j \in idx : i <= j]

\* messages.findLast(msg => msg.role === "user" || msg.role === "tool")
lastUserMsg(messages) ==
    LET idx == {i \in 1..Len(messages) : messages[i].role \in {"user", "tool"}}
    IN IF idx = {} THEN [role |-> "undefined", toolCallId |-> None, content |-> "",
                         isArray |-> FALSE, parts |-> <<>>]
       ELSE messages[SetMax(idx)]

isToolResultRequest(messages) == lastUserMsg(messages).role = "tool"

\* content.map((c) => (c.type === "text" ? c.text : "")).join("")
RECURSIVE joinText(_)
joinText(parts) ==
    IF parts = <<>> THEN ""
    ELSE (IF Head(parts).type = "text" THEN Head(parts).text ELSE "") \o joinText(Tail(parts))

userPrompt(messages) ==
    IF ~isToolResultRequest(messages) /\ lastUserMsg(messages).role = "user"
    THEN IF lastUserMsg(messages).isArray
         THEN joinText(lastUserMsg(messages).parts)
         ELSE lastUserMsg(messages).content
    ELSE ""

DefaultPrompt == "user prompt missing. using default"

\* `Tool results with toolCallId ${toolCallId} with result: ${toolResult}`
fallbackPrompt(toolCallId, toolResult) == <<"Tool results", toolCallId, toolResult>>

\* --------------------------------------------------------------- events
RunStartedEvent(t, r) ==
    [type |-> "RUN_STARTED", threadId |-> t, runId |-> r, id |-> None, data |-> ""]
RunFinishedEvent(t, r) ==
    [type |-> "RUN_FINISHED", threadId |-> t, runId |-> r, id |-> None, data |-> ""]
RunErrorEvent(t, r, m) ==
    [type |-> "RUN_ERROR", threadId |-> t, runId |-> r, id |-> None, data |-> m]
TextMessageChunkEvent(messageId, delta) ==
    [type |-> "TEXT_MESSAGE_CHUNK", threadId |-> None, runId |-> None,
     id |-> messageId, data |-> delta]
\* the assistant.message_delta event of the session
MessageDelta(messageId, deltaContent) ==
    [type |-> "assistant.message_delta",
     data |-> [messageId |-> messageId, deltaContent |-> deltaContent]]
ToolCallChunkEvent(toolCallId, toolName) ==
    [type |-> "TOOL_CALL_CHUNK", threadId |-> None, runId |-> None,
     id |-> toolCallId, data |-> toolName]

\* `initialState || {}`
orEmpty(state) == IF state.defined THEN state.doc ELSE EmptyDoc

\* ------------------------------------------------ synchronous code blocks
\* The registries and observers as one value, so that a synchronous block of
\* the code is the composition of its statements in source order.
Cur ==
    [obs |-> obs, stream |-> stream, pendingToolCalls |-> pendingToolCalls,
     sessionCache |-> sessionCache, activeObservers |-> activeObservers,
     turns |-> turns, handler |-> handler, deltaL |-> deltaL, idleL |-> idleL,
     sendCount |-> sendCount, sentPrompt |-> sentPrompt, got |-> got,
     resolved |-> resolved, attachedAtResolve |-> attachedAtResolve,
     resolveCalls |-> resolveCalls, idleSaw |-> idleSaw,
     thrown |-> thrown, localState |-> localState, upd |-> upd, res |-> res,
     sentWith |-> sentWith]

Commit(st) ==
    /\ obs' = st.obs
    /\ stream' = st.stream
    /\ pendingToolCalls' = st.pendingToolCalls
    /\ sessionCache' = st.sessionCache
    /\ activeObservers' = st.activeObservers
    /\ turns' = st.turns
    /\ handler' = st.handler
    /\ deltaL' = st.deltaL
    /\ idleL' = st.idleL
    /\ sendCount' = st.sendCount
    /\ sentPrompt' = st.sentPrompt
    /\ got' = st.got
    /\ resolved' = st.resolved
    /\ attachedAtResolve' = st.attachedAtResolve
    /\ resolveCalls' = st.resolveCalls
    /\ idleSaw' = st.idleSaw
    /\ thrown' = st.thrown
    /\ localState' = st.localState
    /\ upd' = st.upd
    /\ res' = st.res
    /\ sentWith' = st.sentWith

threadOf(r) == input[r].threadId

\* mutant: the cleanup also drops the pending tool calls
cleanup_Evict(st, r) ==
    [st EXCEPT !.deltaL = [s \in Runs |-> @[s] \ {r}],
               !.idleL = [s \in Runs |-> @[s] \ {r}],
               !.pendingToolCalls = {}]

\* unsubDelta(); unsubIdle();  -- the cleanup closure of subscribeToSession.
\* `cleanup?.()` before subscribeToSession ran is a no-op: the Run has no
\* listener to remove then.
cleanup(st, r) ==
    [st EXCEPT !.deltaL = [s \in Runs |-> @[s] \ {r}],
               !.idleL = [s \in Runs |-> @[s] \ {r}]]

\* `data: ${JSON.stringify(event)}\n\n`
Sse(event) == <<"data: ", [json |-> event], "\n\n">>

\* the callbacks POST /agent subscribes with: next(event) { res.write(...) }
resNext(st, r, event) == [st EXCEPT !.res[r].body = Append(@, Sse(event))]

\* complete() { res.end() }
resComplete(st, r) == [st EXCEPT !.res[r].ended = TRUE, !.res[r].endedBy = "complete"]

\* mutant: the error callback ends the response without writing the event
resError_EndOnly(st, r, error) ==
    [st EXCEPT !.res[r].ended = TRUE, !.res[r].endedBy = "error"]

\* error(error) { res.end(`data: ${JSON.stringify(error)}\n\n`) }
resError(st, r, error) ==
    [st EXCEPT !.res[r].body = Append(@, Sse(error)),
               !.res[r].ended = TRUE, !.res[r].endedBy = "error"]

\* rxjs Subscriber: next() on a stopped subscriber is dropped; otherwise the
\* event goes to the consumer's next callback
observerNext(st, r, e) ==
    IF st.obs[r] = "open" THEN resNext([st EXCEPT !.stream[r] = Append(@, e)], r, e) ELSE st

\* rxjs Subscriber: complete() stops the subscriber, calls the consumer's
\* complete callback and runs the teardown returned by the subscribe
\* function (`() => { cleanup?.() }`)
observerComplete(st, r) ==
    IF st.obs[r] = "open"
    THEN cleanup(resComplete([st EXCEPT !.obs[r] = "complete"], r), r)
    ELSE st

\* rxjs Subscriber: error(e) hands e to the consumer's error callback, stops
\* and tears down
observerError(st, r, e) ==
    IF st.obs[r] = "open"
    THEN cleanup(resError([st EXCEPT !.obs[r] = "error", !.stream[r] = Append(@, e)],
                          r, e), r)
    ELSE st

\* mutant: the teardown also releases the thread's session and its pending
\* tool calls
unsubscribe_Release(st, r) ==
    IF st.obs[r] = "open"
    THEN [cleanup([st EXCEPT !.obs[r] = "cancelled"], r)
             EXCEPT !.sessionCache[threadOf(r)] = None, !.pendingToolCalls = {}]
    ELSE st

\* subscription.unsubscribe() by the consumer
unsubscribe(st, r) ==
    IF st.obs[r] = "open" THEN cleanup([st EXCEPT !.obs[r] = "cancelled"], r) ELSE st

subscribeToSession(st, s, r) ==
    [st EXCEPT !.deltaL[s] = @ \cup {r}, !.idleL[s] = @ \cup {r}, !.got[r] = s]

\* error instanceof Error ? error.message : "Unknown error"
errorMessage(error) == IF error.isError THEN error.message ELSE "Unknown error"

\* mutant: the RUN_ERROR event is sent with observer.next
emitError_Next(st, r, error) ==
    observerNext([st EXCEPT !.thrown[r] = error], r,
                 RunErrorEvent(threadOf(r), r, errorMessage(error)))

\* mutant: the failure is reported on every stream
emitError_All(st, r, error) ==
    LET RECURSIVE all(_, _)
        all(x, rs) ==
            IF rs = {} THEN x
            ELSE all(observerError(x, SetMax(rs),
                                   RunErrorEvent(threadOf(r), r, errorMessage(error))),
                     rs \ {SetMax(rs)})
    IN all([st EXCEPT !.thrown[r] = error], Runs)

\* the catch block of execute / executeFallback
emitError(st, r, error) ==
    observerError([st EXCEPT !.thrown[r] = error], r,
                  RunErrorEvent(threadOf(r), r, errorMessage(error)))

\* mutant: the listener forwards every delta twice
deltaListener_Twice(st, r, event) ==
    LET e == TextMessageChunkEvent(event.data.messageId, event.data.deltaContent)
    IN observerNext(observerNext(st, r, e), r, e)

\* session.on("assistant.message_delta", ...) listener of Run r
deltaListener(st, r, event) ==
    observerNext(st, r, TextMessageChunkEvent(event.data.messageId, event.data.deltaContent))

\* mutant: the idle listener leaves the removal of the listeners to the
\* teardown of the stream
idleListener_NoUnsubscribe(st, s, r) ==
    LET a == observerNext([st EXCEPT !.idleSaw[r] = st.obs[r]], r,
                          RunFinishedEvent(threadOf(r), r))
    IN observerComplete(a, r)

\* session.on("session.idle", ...) listener of Run r on session s
idleListener(st, s, r) ==
    LET a == observerNext([st EXCEPT !.idleSaw[r] = st.obs[r]], r,
                          RunFinishedEvent(threadOf(r), r))
        b == observerComplete(a, r)
    IN [b EXCEPT !.deltaL[s] = @ \ {r}, !.idleL[s] = @ \ {r}]

SetMin(S) == CHOOSE x \in S : \A y \in S : x <= y

\* the session dispatches an event to the listeners registered at that moment
RECURSIVE dispatchDelta(_, _, _)
dispatchDelta(st, rs, event) ==
    IF rs = {} THEN st
    ELSE dispatchDelta(deltaListener(st, SetMin(rs), event), rs \ {SetMin(rs)}, event)

RECURSIVE dispatchIdle(_, _, _)
dispatchIdle(st, s, rs) ==
    IF rs = {} THEN st
    ELSE dispatchIdle(idleListener(st, s, SetMin(rs)), s, rs \ {SetMin(rs)})

\* mutant: an empty tool result is replaced by a note for the model
pendingResolve_Default(st, r, s, toolCallId, toolResult) ==
    [st EXCEPT !.handler[toolCallId] =
                   IF @.state = "blocked"
                   THEN [@ EXCEPT !.state = "returned",
                                  !.result = IF toolResult = "" THEN "no result"
                                                                ELSE toolResult]
                   ELSE @,
               !.resolveCalls[toolCallId] = @ + 1,
               !.resolved[r] = toolCallId,
               !.attachedAtResolve[r] = (r \in st.deltaL[s] /\ r \in st.idleL[s])]

\* pending.resolve(toolResult): fulfils the promise the handler awaits; a
\* promise is settled once, later resolve calls change nothing
pendingResolve(st, r, s, toolCallId, toolResult) ==
    [st EXCEPT !.handler[toolCallId] =
                   IF @.state = "blocked"
                   THEN [@ EXCEPT !.state = "returned", !.result = toolResult]
                   ELSE @,
               !.resolveCalls[toolCallId] = @ + 1,
               !.resolved[r] = toolCallId,
               !.attachedAtResolve[r] = (r \in st.deltaL[s] /\ r \in st.idleL[s])]

\* session.send({prompt}); ok = FALSE: the call throws error
sessionSend(st, s, r, prompt, ok, error) ==
    LET a == [st EXCEPT !.sendCount[r] = @ + 1, !.sentPrompt[r] = prompt,
                        !.sentWith[r] =
                            [called |-> TRUE,
                             binding |-> IF threadOf(r) \in Threads
                                         THEN st.activeObservers[threadOf(r)]
                                         ELSE NoActive,
                             attached |-> (r \in st.deltaL[s] /\ r \in st.idleL[s])]]
    IN IF ok THEN [a EXCEPT !.turns[s] = @ + 1]
       ELSE emitError(a, r, error)

\* mutant: a tool-result Run without suspension state submits the default
\* user prompt instead of the synthesized one
promptOf_NoFallbackText(r) ==
    IF input[r].userPrompt = "" THEN <<DefaultPrompt>> ELSE <<input[r].userPrompt>>

\* the prompt a Run submits once it has its session
promptOf(r) ==
    IF input[r].isToolResultRequest
    THEN fallbackPrompt(input[r].toolCallId, input[r].toolResult)
    ELSE IF input[r].userPrompt = "" THEN <<DefaultPrompt>> ELSE <<input[r].userPrompt>>

\* mutant: the prompt is submitted before the listeners are subscribed
afterGetSession_SendFirst(st, s, r, ok, error) ==
    subscribeToSession(sessionSend(st, s, r, promptOf(r), ok, error), s, r)

\* mutant: a Run that gets the session overwrites the mirror with its own
\* state snapshot
afterGetSession_Reseed(st, s, r, ok, error) ==
    sessionSend(subscribeToSession([st EXCEPT !.localState[s] = orEmpty(input[r].state)],
                                   s, r),
                s, r, promptOf(r), ok, error)

\* the tail of execute / executeFallback once getSession has returned s
afterGetSession(st, s, r, ok, error) ==
    sessionSend(subscribeToSession(st, s, r), s, r, promptOf(r), ok, error)

\* ------------------------------------------------------ state reconciler
StateDeltaEvent(delta) ==
    [type |-> "STATE_DELTA", threadId |-> None, runId |-> None, id |-> None,
     data |-> delta]

\* fast-json-patch applyOperation with validation on, for a path that names
\* a top-level key: replace and remove need the key to exist
applyOperation(doc, o) ==
    IF o.path = NoPath \/ o.op = "" THEN [ok |-> FALSE, newDocument |-> doc]
    ELSE LET k == CHOOSE key \in Keys : PathOf[key] = o.path
         IN CASE o.op = "add" ->
                    [ok |-> TRUE, newDocument |-> [doc EXCEPT ![k] = o.value]]
              [] o.op = "replace" ->
                    IF doc[k] = Absent THEN [ok |-> FALSE, newDocument |-> doc]
                    ELSE [ok |-> TRUE, newDocument |-> [doc EXCEPT ![k] = o.value]]
              [] o.op = "remove" ->
                    IF doc[k] = Absent THEN [ok |-> FALSE, newDocument |-> doc]
                    ELSE [ok |-> TRUE, newDocument |-> [doc EXCEPT ![k] = Absent]]

\* jsonpatch.applyPatch(document, operations, true, false): works on a copy;
\* ok = FALSE: an operation threw, and the document passed in is untouched
RECURSIVE applyPatch(_, _)
applyPatch(doc, operations) ==
    IF operations = <<>> THEN [ok |-> TRUE, newDocument |-> doc]
    ELSE LET first == applyOperation(doc, Head(operations))
             rest == applyPatch(first.newDocument, Tail(operations))
         IN IF first.ok /\ rest.ok THEN rest ELSE [ok |-> FALSE, newDocument |-> doc]

Valid == Success("valid", 0)

\* the validation loop of update_state: the result of the first operation
\* that fails a check, Valid if none does
RECURSIVE validate(_)
validate(operations) ==
    IF operations = <<>> THEN Valid
    ELSE LET op == Head(operations)
         IN IF op.op = "" \/ op.path = NoPath
            THEN Failure("Invalid operation: each operation must have 'op' and 'path' fields", "")
            ELSE IF op.op \in {"add", "replace"} /\ op.value = Undefined
            THEN Failure("Operation requires a 'value' field", op.op)
            ELSE validate(Tail(operations))

\* the batch starts with a well-formed operation that would change the
\* document, and has more operations after it
EffectivePrefix(doc, operations) ==
    /\ Len(operations) > 1
    /\ ~Malformed(<<operations[1]>>)
    /\ applyOperation(doc, operations[1]).ok
    /\ applyOperation(doc, operations[1]).newDocument # doc

\* the document after the first n operations of a batch, each applied to the
\* result of the one before
RECURSIVE After(_, _, _)
After(doc, operations, n) ==
    IF n = 0 THEN doc
    ELSE applyOperation(After(doc, operations, n - 1), operations[n]).newDocument

\* a batch whose operations are all well formed and whose i-th operation is
\* a replace or remove of a key the document lacks by then, the operations
\* before it having applied
FailsAt(doc, operations, i) ==
    /\ i \in 1..Len(operations)
    /\ ~Malformed(operations)
    /\ \A j \in 1..(i - 1) : applyOperation(After(doc, operations, j - 1), operations[j]).ok
    /\ operations[i].op \in {"replace", "remove"}
    /\ \E k \in Keys : /\ PathOf[k] = operations[i].path
                       /\ After(doc, operations, i - 1)[k] = Absent

\* the index of the operation at which applying a well-formed batch fails,
\* 0 if it is malformed or applies
FirstFailure(doc, operations) ==
    IF \E i \in 1..Len(operations) : FailsAt(doc, operations, i)
    THEN CHOOSE i \in 1..Len(operations) : FailsAt(doc, operations, i)
    ELSE 0

\* the record of an update_state call on session s, before its outcome is known
called(st, s, operations) ==
    [NoUpdate EXCEPT !.n = st.upd.n + 1, !.session = s,
                     !.malformed = Malformed(operations),
                     !.prefix = EffectivePrefix(st.localState[s], operations),
                     !.failsAt = FirstFailure(st.localState[s], operations),
                     !.before = st.localState[s]]

\* mutant: each operation is checked just before it is applied
RECURSIVE applyChecked(_, _)
applyChecked(doc, operations) ==
    IF operations = <<>> THEN [ok |-> TRUE, newDocument |-> doc]
    ELSE IF ~validate(<<Head(operations)>>).success
         THEN [ok |-> FALSE, newDocument |-> doc]
         ELSE LET first == applyOperation(doc, Head(operations))
              IN IF first.ok THEN applyChecked(first.newDocument, Tail(operations))
                 ELSE [ok |-> FALSE, newDocument |-> doc]

stateTool_CheckAsYouGo(st, s, operations) ==
    LET active == st.activeObservers[threadOf(s)]
        result == applyChecked(st.localState[s], operations)
        call == called(st, s, operations)
    IN IF ~result.ok
       THEN [st EXCEPT !.localState[s] = result.newDocument,
                       !.upd = [call EXCEPT !.result = Failure("Invalid operation", "")]]
       ELSE observerNext(
                [st EXCEPT !.localState[s] = result.newDocument,
                           !.upd = [call EXCEPT !.emitted = TRUE, !.delta = operations,
                                                !.result = Success("Applied", Len(operations))]],
                active.observer, StateDeltaEvent(operations))

\* mutant: update_state ends the Run as a client tool does
stateTool_Finish(st, s, operations) ==
    LET active == st.activeObservers[threadOf(s)]
        result == applyPatch(st.localState[s], operations)
        call == called(st, s, operations)
        a == observerNext(
                 [st EXCEPT !.localState[s] = result.newDocument,
                            !.upd = [call EXCEPT !.emitted = TRUE, !.delta = operations,
                                                 !.result = Success("Applied", Len(operations))]],
                 active.observer, StateDeltaEvent(operations))
        b == observerNext(a, active.observer, RunFinishedEvent(threadOf(s), active.runId))
    IN observerComplete(b, active.observer)

\* mutant: the operations applied before the failing one are kept
RECURSIVE applyInPlace(_, _)
applyInPlace(doc, operations) ==
    IF operations = <<>> THEN [ok |-> TRUE, newDocument |-> doc]
    ELSE LET first == applyOperation(doc, Head(operations))
         IN IF first.ok THEN applyInPlace(first.newDocument, Tail(operations))
            ELSE [ok |-> FALSE, newDocument |-> doc]

stateTool_KeepPrefix(st, s, operations) ==
    LET active == st.activeObservers[threadOf(s)]
        call == called(st, s, operations)
    IN IF active = NoActive
       THEN [st EXCEPT !.upd = [call EXCEPT !.result =
                                   Failure("No active client connection", "")]]
       ELSE IF Len(operations) = 0
       THEN [st EXCEPT !.upd = [call EXCEPT !.result =
                                   Failure("No valid operations provided", "")]]
       ELSE IF validate(operations) # Valid
       THEN [st EXCEPT !.upd = [call EXCEPT !.result = validate(operations)]]
       ELSE LET result == applyInPlace(st.localState[s], operations)
            IN IF ~result.ok
               THEN [st EXCEPT !.localState[s] = result.newDocument,
                               !.upd = [call EXCEPT !.result =
                                           Failure("Failed to apply state patch", "")]]
               ELSE observerNext(
                        [st EXCEPT !.localState[s] = result.newDocument,
                                   !.upd = [call EXCEPT
                                               !.emitted = TRUE, !.delta = operations,
                                               !.result = Success("Applied", Len(operations))]],
                        active.observer, StateDeltaEvent(operations))

\* handler of the update_state tool of session s (explicit-patch reconciler)
stateTool(st, s, operations) ==
    LET active == st.activeObservers[threadOf(s)]
        call == called(st, s, operations)
    IN IF active = NoActive
       THEN [st EXCEPT !.upd = [call EXCEPT !.result =
                                   Failure("No active client connection", "")]]
       ELSE IF Len(operations) = 0
       THEN [st EXCEPT !.upd = [call EXCEPT !.result =
                                   Failure("No valid operations provided", "")]]
       ELSE IF validate(operations) # Valid
       THEN [st EXCEPT !.upd = [call EXCEPT !.result = validate(operations)]]
       ELSE LET result == applyPatch(st.localState[s], operations)
            IN IF ~result.ok
               THEN [st EXCEPT !.upd = [call EXCEPT !.result =
                                           Failure("Failed to apply state patch", "")]]
               ELSE observerNext(
                        [st EXCEPT !.localState[s] = result.newDocument,
                                   !.upd = [call EXCEPT
                                               !.emitted = TRUE, !.delta = operations,
                                               !.result = Success("Applied", Len(operations))]],
                        active.observer, StateDeltaEvent(operations))

\* the keys of a document in insertion order
KeyOrder == <<"title", "servings">>

\* { ...localState, ...updates }; Absent in updates: the key is not supplied
merge(doc, updates) ==
    [k \in Keys |-> IF updates[k] # Absent THEN updates[k] ELSE doc[k]]

\* fast-json-patch compare(a, b) on top-level keys: the keys of a, last
\* first, give remove or replace; then the keys only b has give add
RECURSIVE changed(_, _, _)
changed(a, b, i) ==
    IF i = 0 THEN <<>>
    ELSE LET k == KeyOrder[i]
             here == IF a[k] = Absent THEN <<>>
                     ELSE IF b[k] = Absent
                     THEN <<[op |-> "remove", path |-> PathOf[k], value |-> Undefined]>>
                     ELSE IF a[k] # b[k]
                     THEN <<[op |-> "replace", path |-> PathOf[k], value |-> b[k]]>>
                     ELSE <<>>
         IN here \o changed(a, b, i - 1)

RECURSIVE added(_, _, _)
added(a, b, i) ==
    IF i > Len(KeyOrder) THEN <<>>
    ELSE LET k == KeyOrder[i]
             here == IF a[k] = Absent /\ b[k] # Absent
                     THEN <<[op |-> "add", path |-> PathOf[k], value |-> b[k]]>>
                     ELSE <<>>
         IN here \o added(a, b, i + 1)

compare(a, b) == changed(a, b, Len(KeyOrder)) \o added(a, b, 1)

\* mutant: the delta is emitted and the mirror replaced whatever the diff
mergeTool_AlwaysEmit(st, s, updates) ==
    LET newState == merge(st.localState[s], updates)
        delta == compare(st.localState[s], newState)
        call == [NoUpdate EXCEPT !.n = st.upd.n + 1, !.session = s,
                                 !.before = st.localState[s], !.updates = updates]
    IN observerNext(
           [st EXCEPT !.localState[s] = newState,
                      !.upd = [call EXCEPT !.emitted = TRUE, !.delta = delta,
                                           !.result = Success("State updated", 0)]],
           s, StateDeltaEvent(delta))

\* handler of the update_state tool of the explicit-lifetime agents
\* (partial-merge reconciler); it emits on the observer of the Run that made
\* session s, which the model names s as well
mergeTool(st, s, updates) ==
    LET newState == merge(st.localState[s], updates)
        delta == compare(st.localState[s], newState)
        call == [NoUpdate EXCEPT !.n = st.upd.n + 1, !.session = s,
                                 !.before = st.localState[s], !.updates = updates]
    IN IF Len(delta) > 0
       THEN observerNext(
                [st EXCEPT !.localState[s] = newState,
                           !.upd = [call EXCEPT !.emitted = TRUE, !.delta = delta,
                                                !.result = Success("State updated", 0)]],
                s, StateDeltaEvent(delta))
       ELSE [st EXCEPT !.upd = [call EXCEPT !.result = Success("State updated", 0)]]

\* ------------------------------------------------------------------ Init
InitAgent ==
    /\ input = [r \in Runs |-> NoInput]
    /\ pc = [r \in Runs |-> "none"]
    /\ obs = [r \in Runs |-> "unsubscribed"]
    /\ stream = [r \in Runs |-> <<>>]
    /\ pendingToolCalls = {}
    /\ sessionCache = [t \in Threads |-> None]
    /\ activeObservers = [t \in Threads |-> NoActive]
    /\ sessKind = [s \in Runs |-> "none"]
    /\ existing = [r \in Runs |-> FALSE]
    /\ turns = [s \in Runs |-> 0]
    /\ handler = [c \in ToolCallIds |-> NoHandler]
    /\ deltaL = [s \in Runs |-> {}]
    /\ idleL = [s \in Runs |-> {}]
    /\ nDeltas = 0
    /\ sendCount = [r \in Runs |-> 0]
    /\ sentPrompt = [r \in Runs |-> <<>>]
    /\ got = [r \in Runs |-> None]
    /\ resolved = [r \in Runs |-> None]
    /\ attachedAtResolve = [r \in Runs |-> FALSE]
    /\ resolveCalls = [c \in ToolCallIds |-> 0]
    /\ idleSaw = [r \in Runs |-> "never"]
    /\ thrown = [r \in Runs |-> NoError]
    /\ localState = [s \in Runs |-> EmptyDoc]
    /\ upd = NoUpdate
    /\ del = NoDelete
    /\ session = [r \in Runs |-> None]
    /\ res = [r \in Runs |-> NoResponse]
    /\ sentWith = [r \in Runs |-> NoSent]

\* the clients keep no shared state
Init ==
    /\ InitAgent
    /\ listed = {}
    /\ clientState = [t \in Threads |-> EmptyDoc]
    /\ request = <<>>

\* --------------------------------------------------------- Run actions
\* mutant: run(input) itself binds the thread to the new Run
run_Eager(r, threadId, messages, tools, state) ==
    /\ pc[r] = "none"
    /\ input' = [input EXCEPT ![r] =
                    [threadId |-> threadId,
                     isToolResultRequest |-> isToolResultRequest(messages),
                     toolCallId |-> IF isToolResultRequest(messages)
                                    THEN lastUserMsg(messages).toolCallId ELSE None,
                     toolResult |-> IF isToolResultRequest(messages)
                                    THEN lastUserMsg(messages).content ELSE "",
                     userPrompt |-> userPrompt(messages),
                     tools |-> tools,
                     state |-> state]]
    /\ pc' = [pc EXCEPT ![r] = "created"]
    /\ activeObservers' = [activeObservers EXCEPT ![threadId] = [observer |-> r, runId |-> r]]
    /\ UNCHANGED <<obs, stream, pendingToolCalls, sessionCache,
                   sessKind, listed, existing, turns, handler, deltaL, idleL,
                   nDeltas, sendCount, sentPrompt, got, resolved,
                   attachedAtResolve, resolveCalls, idleSaw, thrown,
                   localState, clientState, upd, request, del, session, res, sentWith>>

\* run(input): classifies the request; nothing else happens before the
\* returned Observable is subscribed
run(r, threadId, messages, tools, state) ==
    /\ pc[r] = "none"
    /\ input' = [input EXCEPT ![r] =
                    [threadId |-> threadId,
                     isToolResultRequest |-> isToolResultRequest(messages),
                     toolCallId |-> IF isToolResultRequest(messages)
                                    THEN lastUserMsg(messages).toolCallId ELSE None,
                     toolResult |-> IF isToolResultRequest(messages)
                                    THEN lastUserMsg(messages).content ELSE "",
                     userPrompt |-> userPrompt(messages),
                     tools |-> tools,
                     state |-> state]]
    /\ pc' = [pc EXCEPT ![r] = "created"]
    /\ UNCHANGED <<obs, stream, pendingToolCalls, sessionCache, activeObservers,
                   sessKind, listed, existing, turns, handler, deltaL, idleL,
                   nDeltas, sendCount, sentPrompt, got, resolved,
                   attachedAtResolve, resolveCalls, idleSaw, thrown,
                   localState, clientState, upd, request, del, session, res, sentWith>>

\* mutant: the binding is written only when the thread has none
bindAndStart_FirstWins(st, r) ==
    observerNext([st EXCEPT !.obs[r] = "open",
                            !.activeObservers[threadOf(r)] =
                                IF @ = NoActive THEN [observer |-> r, runId |-> r] ELSE @],
                 r, RunStartedEvent(threadOf(r), r))

\* activeObservers.set(threadId, {observer, runId}); observer.next(RUN_STARTED)
bindAndStart(st, r) ==
    observerNext([st EXCEPT !.obs[r] = "open",
                            !.activeObservers[threadOf(r)] = [observer |-> r, runId |-> r]],
                 r, RunStartedEvent(threadOf(r), r))

\* mutant: the pending promise is resolved before the Run subscribes
resume_ResolveFirst(st, r) ==
    LET cachedSession == st.sessionCache[threadOf(r)]
        a == pendingResolve(st, r, cachedSession, input[r].toolCallId, input[r].toolResult)
        b == [a EXCEPT !.pendingToolCalls = @ \ {input[r].toolCallId}]
    IN subscribeToSession(b, cachedSession, r)

\* mutant: the entry stays in the registry after it was resolved
resume_NoDelete(st, r) ==
    LET cachedSession == st.sessionCache[threadOf(r)]
        a == subscribeToSession(st, cachedSession, r)
    IN pendingResolve(a, r, cachedSession, input[r].toolCallId, input[r].toolResult)

\* mutant: the resumption Run also submits the tool result as a prompt
resume_AlsoSend(st, r) ==
    LET cachedSession == st.sessionCache[threadOf(r)]
        a == subscribeToSession(st, cachedSession, r)
        b == pendingResolve(a, r, cachedSession, input[r].toolCallId, input[r].toolResult)
        c == [b EXCEPT !.pendingToolCalls = @ \ {input[r].toolCallId}]
    IN sessionSend(c, cachedSession, r, promptOf(r), TRUE, NoError)

\* resumption branch: subscribe, then resolve, then delete the entry
resume(st, r) ==
    LET cachedSession == st.sessionCache[threadOf(r)]
        a == subscribeToSession(st, cachedSession, r)
        b == pendingResolve(a, r, cachedSession, input[r].toolCallId, input[r].toolResult)
    IN [b EXCEPT !.pendingToolCalls = @ \ {input[r].toolCallId}]

\* does the body of the Observable take the resumption branch
resumes(st, r) ==
    /\ input[r].isToolResultRequest
    /\ input[r].toolCallId \in st.pendingToolCalls
    /\ st.sessionCache[threadOf(r)] # None

\* res.writeHead(200, ...): the first statement of the synchronous block in
\* which POST /agent creates the Observable and subscribes to it
writeHead(st, r) == [st EXCEPT !.res[r].status = 200]

\* observable.subscribe(...): the synchronous body of the Observable, and,
\* when getSession finds the session cached, the rest of execute /
\* executeFallback, which then runs without waiting for any I/O
subscribe(r, ok, error) ==
    /\ pc[r] = "created"
    /\ LET a == bindAndStart(writeHead(Cur, r), r)
           cached == a.sessionCache[threadOf(r)]
       IN IF resumes(a, r)
          THEN /\ Commit(resume(a, r))
               /\ pc' = [pc EXCEPT ![r] = "done"]
          ELSE IF cached # None
          THEN /\ Commit(afterGetSession(a, cached, r, ok, error))
               /\ pc' = [pc EXCEPT ![r] = IF ok THEN "done" ELSE "failed"]
          ELSE /\ Commit(a)
               /\ pc' = [pc EXCEPT ![r] = "listSessions"]
    /\ UNCHANGED <<input, sessKind, listed, existing, nDeltas, clientState, request, del, session>>

\* mutant: the lookup in the listed sessions never finds the thread
listSessions_NeverFound(r, ok, error) ==
    /\ pc[r] = "listSessions"
    /\ IF ok
       THEN /\ existing' = [existing EXCEPT ![r] = FALSE]
            /\ pc' = [pc EXCEPT ![r] = "createSession"]
            /\ UNCHANGED <<obs, stream, pendingToolCalls, sessionCache,
                           activeObservers, turns, handler, deltaL, idleL,
                           sendCount, sentPrompt, got, resolved,
                           attachedAtResolve, resolveCalls, idleSaw, thrown,
                           localState, upd, res, sentWith>>
       ELSE /\ Commit(emitError(Cur, r, error))
            /\ pc' = [pc EXCEPT ![r] = "failed"]
            /\ UNCHANGED existing
    /\ UNCHANGED <<input, sessKind, listed, nDeltas, clientState, request, del, session>>

\* getSession, cache miss: `await this.client.listSessions()` returns (or
\* client.start / listSessions throws)
listSessions(r, ok, error) ==
    /\ pc[r] = "listSessions"
    /\ IF ok
       THEN /\ existing' = [existing EXCEPT ![r] = threadOf(r) \in listed]
            /\ pc' = [pc EXCEPT ![r] = "createSession"]
            /\ UNCHANGED <<obs, stream, pendingToolCalls, sessionCache,
                           activeObservers, turns, handler, deltaL, idleL,
                           sendCount, sentPrompt, got, resolved,
                           attachedAtResolve, resolveCalls, idleSaw, thrown,
                           localState, upd, res, sentWith>>
       ELSE /\ Commit(emitError(Cur, r, error))
            /\ pc' = [pc EXCEPT ![r] = "failed"]
            /\ UNCHANGED existing
    /\ UNCHANGED <<input, sessKind, listed, nDeltas, clientState, request, del, session>>

\* getSession, cache miss: resumeSession / createSession returns session r
\* (a session is named by the Run that made it), it is cached, and execute /
\* executeFallback go on to subscribe and send
createSession(r, ok, sendOk, error) ==
    /\ pc[r] = "createSession"
    /\ pc' = [pc EXCEPT ![r] = IF ok /\ sendOk THEN "done" ELSE "failed"]
    /\ IF ok
       THEN /\ sessKind' = [sessKind EXCEPT ![r] = IF existing[r] THEN "resumed" ELSE "created"]
            /\ listed' = listed \cup {threadOf(r)}
            /\ Commit(afterGetSession(
                          [Cur EXCEPT !.sessionCache[threadOf(r)] = r,
                                      !.localState[r] = orEmpty(input[r].state)],
                          r, r, sendOk, error))
       ELSE /\ Commit(emitError(Cur, r, error))
            /\ UNCHANGED <<sessKind, listed>>
    /\ UNCHANGED <<input, existing, nDeltas, clientState, request, del, session>>

\* the consumer of the stream goes away: subscription.unsubscribe()
cancel(r) ==
    /\ obs[r] = "open"
    /\ Commit(unsubscribe(Cur, r))
    /\ UNCHANGED <<input, pc, sessKind, listed, existing, nDeltas, clientState, request, del, session>>

\* ----------------------------------------------------- session actions
\* mutant: the handler emits through the observer of the Run that built the
\* session instead of the thread's current binding
toolHandler_Captured(st, s, toolCallId, toolName) ==
    LET a == observerNext(st, s, ToolCallChunkEvent(toolCallId, toolName))
        b == observerNext(a, s, RunFinishedEvent(threadOf(s), s))
        c == observerComplete(b, s)
    IN [c EXCEPT !.pendingToolCalls = @ \cup {toolCallId},
                 !.handler[toolCallId] = [state |-> "blocked", session |-> s, result |-> ""]]

\* mutant: RUN_FINISHED is emitted before the tool-call dispatch
toolHandler_FinishFirst(st, s, toolCallId, toolName) ==
    LET active == st.activeObservers[threadOf(s)]
        a == observerNext(st, active.observer, RunFinishedEvent(threadOf(s), active.runId))
        b == observerNext(a, active.observer, ToolCallChunkEvent(toolCallId, toolName))
        c == observerComplete(b, active.observer)
    IN [c EXCEPT !.pendingToolCalls = @ \cup {toolCallId},
                 !.handler[toolCallId] = [state |-> "blocked", session |-> s, result |-> ""]]

\* mutant: the handler emits on every open stream of the thread
toolHandler_Broadcast(st, s, toolCallId, toolName) ==
    LET RECURSIVE emit(_, _)
        emit(x, rs) ==
            IF rs = {} THEN x
            ELSE LET r == SetMin(rs)
                     a == observerNext(x, r, ToolCallChunkEvent(toolCallId, toolName))
                     b == observerNext(a, r, RunFinishedEvent(threadOf(s), r))
                 IN emit(observerComplete(b, r), rs \ {r})
        c == emit(st, {r \in Runs : threadOf(r) = threadOf(s)})
    IN [c EXCEPT !.pendingToolCalls = @ \cup {toolCallId},
                 !.handler[toolCallId] = [state |-> "blocked", session |-> s, result |-> ""]]

\* mutant: the handoff does not complete the stream
toolHandler_NoComplete(st, s, toolCallId, toolName) ==
    LET active == st.activeObservers[threadOf(s)]
        a == observerNext(st, active.observer, ToolCallChunkEvent(toolCallId, toolName))
        b == observerNext(a, active.observer, RunFinishedEvent(threadOf(s), active.runId))
    IN [b EXCEPT !.pendingToolCalls = @ \cup {toolCallId},
                 !.handler[toolCallId] = [state |-> "blocked", session |-> s, result |-> ""]]

\* mutant: one binding for the whole process, that of the Run subscribed
\* last, instead of one per thread
toolHandler_LastRun(st, s, toolCallId, toolName) ==
    LET last == SetMax({r \in Runs : st.obs[r] # "unsubscribed"})
        a == observerNext(st, last, ToolCallChunkEvent(toolCallId, toolName))
        b == observerNext(a, last, RunFinishedEvent(threadOf(s), last))
        c == observerComplete(b, last)
    IN [c EXCEPT !.pendingToolCalls = @ \cup {toolCallId},
                 !.handler[toolCallId] = [state |-> "blocked", session |-> s, result |-> ""]]

\* handler of a client-executed tool, created by the getSession call that
\* made session s, up to the point where it awaits the pending promise
toolHandler(st, s, toolCallId, toolName) ==
    LET active == st.activeObservers[threadOf(s)]
    IN IF active = NoActive
       THEN [st EXCEPT !.handler[toolCallId] =
                [state |-> "returned", session |-> s,
                 result |-> "Error: no active client connection"]]
       ELSE LET a == observerNext(st, active.observer,
                                  ToolCallChunkEvent(toolCallId, toolName))
                b == observerNext(a, active.observer,
                                  RunFinishedEvent(threadOf(s), active.runId))
                c == observerComplete(b, active.observer)
            IN [c EXCEPT !.pendingToolCalls = @ \cup {toolCallId},
                         !.handler[toolCallId] =
                             [state |-> "blocked", session |-> s, result |-> ""]]

blockedHandlers(s) ==
    {c \in ToolCallIds : handler[c].session = s /\ handler[c].state = "blocked"}

\* the session emits an assistant.message_delta event during a turn; max
\* bounds the number of deltas of the scenario
emitDelta(s, event, max) ==
    /\ sessKind[s] # "none"
    /\ turns[s] > 0
    /\ nDeltas < max
    /\ nDeltas' = nDeltas + 1
    /\ Commit(dispatchDelta(Cur, deltaL[s], event))
    /\ UNCHANGED <<input, pc, sessKind, listed, existing, clientState, request, del, session>>

\* a turn with one delta, whose message id is its number
sessionDelta(s) == emitDelta(s, MessageDelta(nDeltas + 1, "delta"), MaxDeltas)

\* during a turn the model calls one of the session's tools; the session
\* generates the tool-call id
toolCall(s, toolCallId, toolName) ==
    /\ sessKind[s] # "none"
    /\ turns[s] > 0
    /\ toolName \in input[s].tools
    /\ handler[toolCallId].state = "unused"
    /\ \A c \in ToolCallIds : c < toolCallId => handler[c].state # "unused"
    /\ Commit(toolHandler(Cur, s, toolCallId, toolName))
    /\ UNCHANGED <<input, pc, sessKind, listed, existing, nDeltas, clientState, request, del, session>>

\* the turn ends once every tool handler it invoked has returned: the
\* session emits session.idle
sessionIdle(s) ==
    /\ sessKind[s] # "none"
    /\ turns[s] > 0
    /\ blockedHandlers(s) = {}
    /\ Commit(dispatchIdle([Cur EXCEPT !.turns[s] = @ - 1], s, idleL[s]))
    /\ UNCHANGED <<input, pc, sessKind, listed, existing, nDeltas, clientState, request, del, session>>

\* the client applies a state delta it received to its copy of the state
clientApply(doc, delta) ==
    IF applyPatch(doc, delta).ok THEN applyPatch(doc, delta).newDocument ELSE doc

\* during a turn the model calls update_state; the client applies the delta
\* if the event reaches it
updateState(s, operations) ==
    /\ sessKind[s] # "none"
    /\ turns[s] > 0
    /\ upd.n < MaxUpdates
    /\ LET st == stateTool(Cur, s, operations)
           t == threadOf(s)
           delivered == \E r \in Runs : Len(st.stream[r]) > Len(stream[r])
       IN /\ Commit(st)
          /\ clientState' = IF delivered
                            THEN [clientState EXCEPT ![t] = clientApply(@, operations)]
                            ELSE clientState
    /\ UNCHANGED <<input, pc, sessKind, listed, existing, nDeltas, request, del, session>>

\* POST /agent calls agent.run(req.body) and subscribes to the result in the
\* same synchronous block: nothing else runs between the two
Subscribing == \E r \in Runs : pc[r] = "created"

\* bound on the scenario: failed or cancelled Runs
Faults == {r \in Runs : pc[r] = "failed" \/ obs[r] = "cancelled"}
MayFault == Cardinality(Faults) < MaxFaults

\* Runs whose stream is open or whose body still awaits getSession
InFlight == {r \in Runs : obs[r] = "open" \/ pc[r] \in {"listSessions", "createSession"}}

\* the requests the clients send carry a user message or a tool result
RequestMessages == {m \in MessageLists : lastUserMsg(m).role # "undefined"}

\* the two shortest requests: a user message, the result of the first tool call
ShortRequests == {<<UserMsg("hello")>>, <<ToolMsg(1, "18C")>>}

\* the steps that follow a posted request, as the event loop takes them
Subscribe(r) ==
    \E ok \in BOOLEAN, e \in Thrown : (ok \/ MayFault) /\ subscribe(r, ok, e)

ListSessions(r) ==
    \E ok \in BOOLEAN, e \in Thrown :
        ~Subscribing /\ (ok \/ MayFault) /\ listSessions(r, ok, e)

CreateSession(r) ==
    \E ok \in BOOLEAN, sendOk \in BOOLEAN, e \in Thrown :
        ~Subscribing /\ ((ok /\ sendOk) \/ MayFault) /\ createSession(r, ok, sendOk, e)

Cancel(r) == ~Subscribing /\ MayFault /\ cancel(r)

Delta(s) == ~Subscribing /\ sessionDelta(s)

ToolCall(s) == \E c \in ToolCallIds, n \in ToolNames : ~Subscribing /\ toolCall(s, c, n)

Idle(s) == ~Subscribing /\ sessionIdle(s)

Async ==
    \/ \E r \in Runs : Subscribe(r)
    \/ \E r \in Runs : ListSessions(r)
    \/ \E r \in Runs : CreateSession(r)
    \/ \E r \in Runs : Cancel(r)
    \/ \E s \in Runs : Delta(s)
    \/ \E s \in Runs : ToolCall(s)
    \/ \E s \in Runs : Idle(s)

\* Runs and threads are numbered in the order in which they first appear
InOrder(r, t) ==
    /\ \A q \in Runs : q < r => pc[q] # "none"
    /\ \A u \in Threads : u < t => \E q \in Runs : threadOf(q) = u

\* normal operation: the client opens a Run when the previous one is over
Post(r) ==
    \E t \in Threads, m \in RequestMessages :
        ~Subscribing /\ InFlight = {} /\ InOrder(r, t) /\ run(r, t, m, ToolNames, NoState)

Next ==
    \/ \E r \in Runs : Post(r)
    \/ Async

Spec == Init /\ [][Next]_vars

\* overlapping Runs: the first OverlapRuns requests may arrive at any time
PostAnyTime(r) ==
    \E t \in Threads, m \in RequestMessages :
        ~Subscribing /\ r <= OverlapRuns /\ InOrder(r, t) /\ run(r, t, m, ToolNames, NoState)

NextOverlap ==
    \/ \E r \in Runs : PostAnyTime(r)
    \/ Async

SpecOverlap == Init /\ [][NextOverlap]_vars

\* the shared-state agent on one thread: each request carries the client's
\* copy of the state, and the model may call update_state during a turn
ClientDocs == {EmptyDoc, [k \in Keys |-> IF k = "title" THEN "soup" ELSE Absent]}

InitState ==
    /\ InitAgent
    /\ clientState \in {[t \in Threads |-> IF t = 1 THEN d ELSE EmptyDoc] : d \in ClientDocs}
    /\ request = <<>>
    /\ listed = {}

PostState(r) ==
    \E m \in RequestMessages :
        /\ ~Subscribing /\ InFlight = {} /\ r <= StateRuns /\ InOrder(r, 1)
        /\ run(r, 1, m, ToolNames, StateOf(clientState[1]))

UpdateState(s) == \E operations \in Batches : ~Subscribing /\ updateState(s, operations)

NextState ==
    \/ \E r \in Runs : PostState(r)
    \/ Async
    \/ \E s \in Runs : UpdateState(s)

SpecState == InitState /\ [][NextState]_vars

\* the shared-state agent on one thread whose session may exist from an
\* earlier process: the requests carry any state snapshot, or none, and the
\* model calls update_state with batches that apply or fail
SeedStates ==
    {NoState} \cup {StateOf([k \in Keys |-> IF k = "title" THEN v ELSE Absent]) : v \in Values}

SeedBatches ==
    {<<>>,
     <<[op |-> "add", path |-> PathOf["title"], value |-> "stew"]>>,
     <<[op |-> "replace", path |-> PathOf["title"], value |-> "soup"]>>,
     <<[op |-> "remove", path |-> PathOf["title"], value |-> Undefined]>>,
     <<[op |-> "replace", path |-> PathOf["title"], value |-> Undefined]>>}

InitSeed ==
    /\ InitAgent
    /\ listed \in {{}, {1}}
    /\ clientState = [t \in Threads |-> EmptyDoc]
    /\ request = <<>>

PostSeed(r) ==
    \E m \in ShortRequests, state \in SeedStates :
        /\ ~Subscribing /\ InFlight = {} /\ r <= SeedRuns /\ InOrder(r, 1)
        /\ run(r, 1, m, ToolNames, state)

NextSeed ==
    \/ \E r \in Runs : PostSeed(r)
    \/ Async
    \/ \E s \in Runs, operations \in SeedBatches : ~Subscribing /\ updateState(s, operations)

SpecSeed == InitSeed /\ [][NextSeed]_vars

\* the agent used by a caller that keeps the Observable run(input) returned
\* and subscribes to it at any later time, or never; the Runs are on one
\* thread and nothing fails
LazyRun(r) ==
    \E m \in ShortRequests : r <= LazyRuns /\ InOrder(r, 1) /\ run(r, 1, m, ToolNames, NoState)

NextLazy ==
    \/ \E r \in Runs : LazyRun(r)
    \/ \E r \in Runs : subscribe(r, TRUE, NoError)
    \/ \E r \in Runs : listSessions(r, TRUE, NoError)
    \/ \E r \in Runs : createSession(r, TRUE, TRUE, NoError)
    \/ \E s \in Runs : sessionDelta(s)
    \/ \E s \in Runs, c \in ToolCallIds, n \in ToolNames : toolCall(s, c, n)
    \/ \E s \in Runs : sessionIdle(s)

SpecLazy == Init /\ [][NextLazy]_vars

\* a thread whose session streams text: the deltas of a turn belong to one
\* message or another and carry different pieces of text
MessageDeltas == {MessageDelta(m, c) : m \in {1, 2}, c \in {"Hel", "lo"}}

PostText(r) ==
    \E m \in ShortRequests :
        /\ ~Subscribing /\ InFlight = {} /\ r <= TextRuns /\ InOrder(r, 1)
        /\ run(r, 1, m, ToolNames, NoState)

NextText ==
    \/ \E r \in Runs : PostText(r)
    \/ \E r \in Runs : Subscribe(r)
    \/ \E r \in Runs : ListSessions(r)
    \/ \E r \in Runs : CreateSession(r)
    \/ \E r \in Runs : Cancel(r)
    \/ \E s \in Runs, event \in MessageDeltas :
          ~Subscribing /\ emitDelta(s, event, MaxTextDeltas)
    \/ \E s \in Runs : ToolCall(s)
    \/ \E s \in Runs : Idle(s)

SpecText == Init /\ [][NextText]_vars

\* two threads whose first Runs arrive at any time and overlap; a request
\* carries a user message or the result of the first tool call, whatever
\* thread made that call; the sessions stream text, call tools and update
\* the state
IsoBatches == {<<[op |-> "add", path |-> PathOf["title"], value |-> "stew"]>>}

PostIso(r) ==
    \E t \in Threads, m \in ShortRequests :
        /\ ~Subscribing /\ r <= IsoRuns /\ InOrder(r, t)
        /\ r <= OverlapRuns \/ InFlight = {}
        /\ run(r, t, m, ToolNames, NoState)

NextIso ==
    \/ \E r \in Runs : PostIso(r)
    \/ \E r \in Runs : subscribe(r, TRUE, NoError)
    \/ \E r \in Runs : ~Subscribing /\ listSessions(r, TRUE, NoError)
    \/ \E r \in Runs : ~Subscribing /\ createSession(r, TRUE, TRUE, NoError)
    \/ \E s \in Runs : Delta(s)
    \/ \E s \in Runs : ToolCall(s)
    \/ \E s \in Runs : Idle(s)
    \/ \E s \in Runs, operations \in IsoBatches : ~Subscribing /\ updateState(s, operations)

SpecIso == Init /\ [][NextIso]_vars

\* one request whose message list is any list of plain-text, multi-part and
\* text-free user messages, tool results and assistant messages; the Run it
\* starts is followed to its end
ClassifyMessages ==
    {UserMsg("hello"), UserMsg(""),
     UserPartsMsg(<<TextPart("good "), ImagePart, TextPart("day")>>),
     UserPartsMsg(<<ImagePart>>),
     AssistantMsg}
    \cup {ToolMsg(id, c) : id \in ToolCallIds, c \in Results}

ClassifyLists == UNION {[1..n -> ClassifyMessages] : n \in 0..MaxClassifyMsgs}

InitClassify ==
    /\ InitAgent
    /\ clientState = [t \in Threads |-> EmptyDoc]
    /\ request \in ClassifyLists
    /\ listed = {}

Classify(r) == r = 1 /\ run(r, 1, request, ToolNames, NoState)

NextClassify ==
    \/ \E r \in Runs : Classify(r)
    \/ Async

SpecClassify == InitClassify /\ [][NextClassify]_vars

\* a thread on which a first Run starts a turn and a second request arrives
\* with any short message list, among them tool results with either id and
\* with different contents, the empty string included
ResumeResults == {"18C", ""}

ResumeMessages ==
    {UserMsg("hello"), AssistantMsg}
    \cup {ToolMsg(id, c) : id \in ToolCallIds, c \in ResumeResults}

ResumeLists == UNION {[1..n -> ResumeMessages] : n \in 1..MaxMsgs}

InitResume ==
    /\ InitAgent
    /\ listed = {}
    /\ clientState = [t \in Threads |-> EmptyDoc]
    /\ request \in ResumeLists

PostResume(r) ==
    /\ ~Subscribing /\ InFlight = {} /\ r <= ResumeRuns /\ InOrder(r, 1)
    /\ run(r, 1, IF r = 1 THEN <<UserMsg("hello")>> ELSE request, ToolNames, NoState)

NextResume ==
    \/ \E r \in Runs : PostResume(r)
    \/ Async

SpecResume == InitResume /\ [][NextResume]_vars

\* ----------------------------------------------------- POST /agent
\* `if (!req.accepts("text/event-stream")) return res.status(406).end(...)`:
\* request r is answered at once and no agent is made for it
notAcceptable(r) ==
    /\ pc[r] = "none"
    /\ pc' = [pc EXCEPT ![r] = "rejected"]
    /\ res' = [res EXCEPT ![r] = [status |-> 406, body |-> <<<<"Not Acceptable">>>>,
                                  ended |-> TRUE, endedBy |-> "handler"]]
    /\ UNCHANGED <<input, obs, stream, pendingToolCalls, sessionCache, activeObservers,
                   sessKind, listed, existing, turns, handler, deltaL, idleL, nDeltas,
                   sendCount, sentPrompt, got, resolved, attachedAtResolve,
                   resolveCalls, idleSaw, thrown, localState, clientState, upd,
                   request, del, session, sentWith>>

\* req.on("error"): subscription.unsubscribe(); res.end()
requestError(r) ==
    /\ obs[r] = "open"
    /\ LET a == unsubscribe(Cur, r)
       IN Commit([a EXCEPT !.res[r].ended = TRUE, !.res[r].endedBy = "requestError"])
    /\ UNCHANGED <<input, pc, sessKind, listed, existing, nDeltas, clientState,
                   request, del, session>>

\* the server with clients that may not accept an event stream and whose
\* requests may fail while the Run is open
PostServer(r) ==
    \E t \in Threads, m \in RequestMessages, accepts \in BOOLEAN :
        /\ ~Subscribing /\ InFlight = {} /\ r <= ServerRuns /\ InOrder(r, t)
        /\ IF accepts THEN run(r, t, m, ToolNames, NoState) ELSE notAcceptable(r)

RequestError(r) == ~Subscribing /\ MayFault /\ requestError(r)

NextServer ==
    \/ \E r \in Runs : PostServer(r)
    \/ Async
    \/ \E r \in Runs : RequestError(r)

SpecServer == Init /\ [][NextServer]_vars

\* ------------------------------------------- DELETE /agent/:sessionId
\* error instanceof Error ? error.message : "something went wrong"
deleteMessage(error) == IF error.isError THEN error.message ELSE "something went wrong"

\* res.status(status).json({success, message | error}); the registries are
\* read here only to record what the session cache held at that moment
respond(d, status, success, text) ==
    [d EXCEPT !.responses = Append(@, [status |-> status, success |-> success,
                                       text |-> text, sessionId |-> d.sessionId]),
              !.cached = sessionCache[d.sessionId],
              !.started = {r \in 1..MaxRuns : pc[r] # "none"}]

\* the catch block of the handler
deleteFailed(d, stage, error) ==
    [respond(d, 500, FALSE, deleteMessage(error))
         EXCEPT !.pc = "done", !.failedAt = stage, !.thrown = error]

\* the loop has run through without a match
notFound(d) == [respond(d, 404, FALSE, "not found.") EXCEPT !.pc = "done"]

\* mutant: the handler does not return after the 200 reply, and the code
\* after the loop replies as well
deleted_NoReturn(d) == notFound(respond(d, 200, TRUE, "deleted."))

\* the matching session was deleted: reply 200 and return
deleted(d) == [respond(d, 200, TRUE, "deleted.") EXCEPT !.pc = "done"]

\* the handler is entered and awaits client.start()
deleteAgent(sessionId) ==
    /\ del.pc \in {"none", "done"}
    /\ del.n < MaxDeletes
    /\ del' = [NoDelete EXCEPT !.n = del.n + 1, !.pc = "start", !.sessionId = sessionId]
    /\ UNCHANGED <<input, pc, obs, stream, pendingToolCalls, sessionCache, activeObservers,
                   sessKind, listed, existing, turns, handler, deltaL, idleL, nDeltas,
                   sendCount, sentPrompt, got, resolved, attachedAtResolve,
                   resolveCalls, idleSaw, thrown, localState, clientState, upd,
                   request, session, res, sentWith>>

\* `await client.start()` returns or throws
deleteClientStart(ok, error) ==
    /\ del.pc = "start"
    /\ del' = IF ok THEN [del EXCEPT !.pc = "listSessions"]
                    ELSE deleteFailed(del, "start", error)
    /\ UNCHANGED <<input, pc, obs, stream, pendingToolCalls, sessionCache, activeObservers,
                   sessKind, listed, existing, turns, handler, deltaL, idleL, nDeltas,
                   sendCount, sentPrompt, got, resolved, attachedAtResolve,
                   resolveCalls, idleSaw, thrown, localState, clientState, upd,
                   request, session, res, sentWith>>

\* `await client.listSessions()` returns or throws; the loop looks for the id
deleteListSessions(ok, error) ==
    /\ del.pc = "listSessions"
    /\ del' = IF ~ok THEN deleteFailed(del, "listSessions", error)
              ELSE IF del.sessionId \in listed
              THEN [del EXCEPT !.found = TRUE, !.pc = "deleteSession"]
              ELSE notFound(del)
    /\ UNCHANGED <<input, pc, obs, stream, pendingToolCalls, sessionCache, activeObservers,
                   sessKind, listed, existing, turns, handler, deltaL, idleL, nDeltas,
                   sendCount, sentPrompt, got, resolved, attachedAtResolve,
                   resolveCalls, idleSaw, thrown, localState, clientState, upd,
                   request, session, res, sentWith>>

\* `await client.deleteSession(sessionId)` returns, the session is gone from
\* the client's store; or it throws and the store is as it was
deleteSession(ok, error) ==
    /\ del.pc = "deleteSession"
    /\ IF ok
       THEN /\ listed' = listed \ {del.sessionId}
            /\ del' = deleted(del)
       ELSE /\ listed' = listed
            /\ del' = deleteFailed(del, "deleteSession", error)
    /\ UNCHANGED <<input, pc, obs, stream, pendingToolCalls, sessionCache, activeObservers,
                   sessKind, existing, turns, handler, deltaL, idleL, nDeltas,
                   sendCount, sentPrompt, got, resolved, attachedAtResolve,
                   resolveCalls, idleSaw, thrown, localState, clientState, upd,
                   request, session, res, sentWith>>

\* the server after a start: the registries are empty, the client's store
\* may hold the session of thread 1 from an earlier process; requests to run
\* on thread 1 and requests to delete any session arrive in any order
InitAdmin ==
    /\ InitAgent
    /\ listed \in {{}, {1}}
    /\ clientState = [t \in Threads |-> EmptyDoc]
    /\ request = <<>>

PostAdmin(r) ==
    \E m \in RequestMessages :
        /\ ~Subscribing /\ InFlight = {} /\ r <= AdminRuns /\ InOrder(r, 1)
        /\ run(r, 1, m, ToolNames, NoState)

DeleteAgent == \E sessionId \in Threads : ~Subscribing /\ deleteAgent(sessionId)

DeleteClientStart ==
    \E ok \in BOOLEAN, e \in Thrown : ~Subscribing /\ deleteClientStart(ok, e)

DeleteListSessions ==
    \E ok \in BOOLEAN, e \in Thrown : ~Subscribing /\ deleteListSessions(ok, e)

DeleteSession ==
    \E ok \in BOOLEAN, e \in Thrown : ~Subscribing /\ deleteSession(ok, e)

NextAdmin ==
    \/ \E r \in Runs : PostAdmin(r)
    \/ Async
    \/ DeleteAgent
    \/ DeleteClientStart
    \/ DeleteListSessions
    \/ DeleteSession

SpecAdmin == InitAdmin /\ [][NextAdmin]_vars

\* ---------------------------------------------- explicit-lifetime agent
\* HumanInTheLoopAgent: run(input) is subscribed, getSession makes the
\* session with its state mirror, execute attaches the listeners and sends the
\* prompt; the consumer stays at least that long
hitlStart(r, t, state) ==
    /\ pc[r] = "none"
    /\ input' = [input EXCEPT ![r] = [NoInput EXCEPT !.threadId = t,
                                                     !.userPrompt = "hello",
                                                     !.state = state]]
    /\ pc' = [pc EXCEPT ![r] = "done"]
    /\ sessKind' = [sessKind EXCEPT ![r] = "created"]
    /\ listed' = listed \cup {t}
    /\ LET a == [Cur EXCEPT !.obs[r] = "open",
                            !.stream[r] = <<RunStartedEvent(t, r)>>,
                            !.localState[r] = orEmpty(state)]
       IN Commit(sessionSend(subscribeToSession(a, r, r), r, r, <<"hello">>, TRUE, NoError))
    /\ UNCHANGED <<existing, nDeltas, clientState, request, del, session>>

\* destroySession(): the session is destroyed and takes no further turn
destroySession(st, s) == [st EXCEPT !.turns[s] = 0]

\* the update_state tool is called during the turn; the client applies the
\* delta if the event reaches it
mergeUpdate(s, updates) ==
    /\ sessKind[s] = "created"
    /\ turns[s] > 0
    /\ upd.n < MaxMerges
    /\ LET st == mergeTool(Cur, s, updates)
       IN /\ Commit(st)
          /\ clientState' =
                IF Len(st.stream[s]) > Len(stream[s])
                THEN [clientState EXCEPT ![threadOf(s)] = clientApply(@, st.upd.delta)]
                ELSE clientState
    /\ UNCHANGED <<input, pc, sessKind, listed, existing, nDeltas, request, del, session>>

\* onIdle: RUN_FINISHED, complete(); the teardown removes the listeners and
\* destroys the session
hitlIdle(s) ==
    /\ sessKind[s] = "created"
    /\ turns[s] > 0
    /\ LET a == observerNext([Cur EXCEPT !.idleSaw[s] = obs[s]], s,
                             RunFinishedEvent(threadOf(s), s))
       IN Commit(destroySession(observerComplete(a, s), s))
    /\ sessKind' = [sessKind EXCEPT ![s] = "destroyed"]
    /\ UNCHANGED <<input, pc, listed, existing, nDeltas, clientState, request, del, session>>

\* the consumer goes away: the teardown removes the listeners and destroys
\* the session
hitlCancel(r) ==
    /\ obs[r] = "open"
    /\ sessKind[r] = "created"
    /\ Commit(destroySession(unsubscribe(Cur, r), r))
    /\ sessKind' = [sessKind EXCEPT ![r] = "destroyed"]
    /\ UNCHANGED <<input, pc, listed, existing, nDeltas, clientState, request, del, session>>

\* ------------------------------ explicit-lifetime agent: session lifetime
\* SharedStateAgent of agents/shared-state.ts, one agent instance per
\* request. onIdle: RUN_FINISHED, complete()
onIdle(st, r) ==
    observerComplete(observerNext([st EXCEPT !.idleSaw[r] = st.obs[r]], r,
                                  RunFinishedEvent(threadOf(r), r)), r)

\* did the synchronous block that led to st end the stream of Run r, so
\* that the teardown `cleanup?.(); this.destroySession()` ran in it
tornDown(st, r) == obs[r] = "open" /\ st.obs[r] # "open"

\* run(input) is subscribed: RUN_STARTED; execute() calls getSession, which
\* finds no session on the new agent and awaits the client
agentRun(r, t) ==
    /\ pc[r] = "none"
    /\ input' = [input EXCEPT ![r] = [NoInput EXCEPT !.threadId = t,
                                                     !.userPrompt = "hello",
                                                     !.tools = ToolNames]]
    /\ pc' = [pc EXCEPT ![r] = "listSessions"]
    /\ Commit([Cur EXCEPT !.obs[r] = "open", !.stream[r] = <<RunStartedEvent(t, r)>>])
    /\ UNCHANGED <<sessKind, listed, existing, nDeltas, clientState, request, del, session>>

\* getSession: client.start() / listSessions() return or throw; the catch
\* block of execute sends RUN_ERROR with observer.error
agentListSessions(r, ok, error) ==
    /\ pc[r] = "listSessions"
    /\ IF ok
       THEN /\ existing' = [existing EXCEPT ![r] = threadOf(r) \in listed]
            /\ pc' = [pc EXCEPT ![r] = "createSession"]
            /\ UNCHANGED <<obs, stream, pendingToolCalls, sessionCache,
                           activeObservers, turns, handler, deltaL, idleL,
                           sendCount, sentPrompt, got, resolved,
                           attachedAtResolve, resolveCalls, idleSaw, thrown,
                           localState, upd, res, sentWith>>
       ELSE /\ Commit(emitError(Cur, r, error))
            /\ pc' = [pc EXCEPT ![r] = "failed"]
            /\ UNCHANGED existing
    /\ UNCHANGED <<input, sessKind, listed, nDeltas, clientState, request, del, session>>

\* getSession: `this.session = await resumeSession / createSession`; execute
\* attaches the listeners, sets cleanup and sends the prompt. If send throws,
\* observer.error tears the stream down with the session in place
agentCreateSession(r, ok, sendOk, error) ==
    /\ pc[r] = "createSession"
    /\ pc' = [pc EXCEPT ![r] = IF ok /\ sendOk THEN "done" ELSE "failed"]
    /\ IF ok
       THEN LET st == sessionSend(subscribeToSession(Cur, r, r), r, r,
                                  <<input[r].userPrompt>>, sendOk, error)
            IN /\ Commit(st)
               /\ session' = [session EXCEPT ![r] = r]
               /\ listed' = listed \cup {threadOf(r)}
               /\ sessKind' = [sessKind EXCEPT ![r] =
                                  IF tornDown(st, r) THEN "aborting"
                                  ELSE IF existing[r] THEN "resumed" ELSE "created"]
       ELSE /\ Commit(emitError(Cur, r, error))
            /\ UNCHANGED <<sessKind, listed, session>>
    /\ UNCHANGED <<input, existing, nDeltas, clientState, request, del>>

\* the session ends its turn: session.idle goes to the listener, if the Run
\* still has one; complete() runs the teardown
agentIdle(s) ==
    /\ sessKind[s] \in {"created", "resumed"}
    /\ turns[s] > 0
    /\ LET a == [Cur EXCEPT !.turns[s] = @ - 1]
           st == IF s \in idleL[s] THEN onIdle(a, s) ELSE a
       IN /\ Commit(st)
          /\ sessKind' = IF tornDown(st, s) /\ session[s] # None
                         THEN [sessKind EXCEPT ![s] = "aborting"] ELSE sessKind
    /\ UNCHANGED <<input, pc, listed, existing, nDeltas, clientState, request, del, session>>

\* the consumer goes away: the teardown runs cleanup, if execute has set it,
\* and destroySession, which acts only if the agent has its session by then
agentCancel(r) ==
    /\ obs[r] = "open"
    /\ Commit(unsubscribe(Cur, r))
    /\ sessKind' = IF session[r] # None
                   THEN [sessKind EXCEPT ![session[r]] = "aborting"] ELSE sessKind
    /\ UNCHANGED <<input, pc, listed, existing, nDeltas, clientState, request, del, session>>

\* destroySession: `await this.session.abort()` has returned;
\* this.session.destroy(); this.session = null
agentDestroyed(r) ==
    /\ session[r] # None
    /\ sessKind[session[r]] = "aborting"
    /\ Commit(destroySession(Cur, session[r]))
    /\ sessKind' = [sessKind EXCEPT ![session[r]] = "destroyed"]
    /\ session' = [session EXCEPT ![r] = None]
    /\ UNCHANGED <<input, pc, listed, existing, nDeltas, clientState, request, del>>

InitLifetime ==
    /\ InitAgent
    /\ listed = {}
    /\ clientState = [t \in Threads |-> EmptyDoc]
    /\ request = <<>>

AgentRun(r) == \E t \in Threads : r <= LifeRuns /\ InOrder(r, t) /\ agentRun(r, t)

AgentListSessions(r) ==
    \E ok \in BOOLEAN, e \in Thrown : (ok \/ MayFault) /\ agentListSessions(r, ok, e)

AgentCreateSession(r) ==
    \E ok \in BOOLEAN, sendOk \in BOOLEAN, e \in Thrown :
        ((ok /\ sendOk) \/ MayFault) /\ agentCreateSession(r, ok, sendOk, e)

AgentDelta(s) == sessKind[s] \in {"created", "resumed", "aborting"} /\ sessionDelta(s)

NextLifetime ==
    \/ \E r \in Runs : AgentRun(r)
    \/ \E r \in Runs : AgentListSessions(r)
    \/ \E r \in Runs : AgentCreateSession(r)
    \/ \E s \in Runs : AgentDelta(s)
    \/ \E s \in Runs : agentIdle(s)
    \/ \E r \in Runs : agentCancel(r)
    \/ \E r \in Runs : agentDestroyed(r)

SpecLifetime == InitLifetime /\ [][NextLifetime]_vars

InitMerge ==
    /\ InitAgent
    /\ clientState \in {[t \in Threads |-> IF t = 1 THEN d ELSE EmptyDoc] : d \in Docs}
    /\ request = <<>>
    /\ listed = {}

\* a request carries the client's state, or none if the client has none
MergeStart ==
    \E state \in {StateOf(clientState[1]), NoState} :
        /\ state = NoState => clientState[1] = EmptyDoc
        /\ hitlStart(1, 1, state)

MergeUpdate == \E updates \in Docs : mergeUpdate(1, updates)

MergeDelta == sessKind[1] = "created" /\ sessionDelta(1)

MergeIdle == hitlIdle(1)

MergeCancel == hitlCancel(1)

NextMerge ==
    \/ MergeStart
    \/ MergeUpdate
    \/ MergeDelta
    \/ MergeIdle
    \/ MergeCancel

SpecMerge == InitMerge /\ [][NextMerge]_vars

\* The event loop runs every continuation that is ready, the client's I/O
\* completes, and a session whose tool handlers have all returned ends its
\* turn. Nothing obliges a client to post or cancel, nor the model to emit
\* text or call a tool.
Fairness ==
    /\ \A r \in Runs : WF_vars(Subscribe(r))
    /\ \A r \in Runs : WF_vars(ListSessions(r))
    /\ \A r \in Runs : WF_vars(CreateSession(r))
    /\ \A s \in Runs : WF_vars(Idle(s))

LiveSpec == Init /\ [][Next]_vars /\ Fairness

\* =====================================================================
\* Properties
\* =====================================================================
Subscribed(r) == obs[r] # "unsubscribed"

\* the Run of thread t that subscribed last (Runs are numbered in the order
\* in which they are posted); None if the thread has had no Run
LatestRun(t) ==
    IF \E r \in Runs : Subscribed(r) /\ threadOf(r) = t
    THEN SetMax({r \in Runs : Subscribed(r) /\ threadOf(r) = t})
    ELSE None

Types(r) == [i \in 1..Len(stream[r]) |-> stream[r][i].type]

\* C9: the binding of a thread is that of the Run of the thread that
\* subscribed last, whatever branch that Run took; a thread without Runs has
\* no binding.
C9_LastWriterWins ==
    \A t \in Threads :
        activeObservers[t] = [observer |-> LatestRun(t), runId |-> LatestRun(t)]

C9_Witness ==
    \E a, b \in Runs :
        /\ a < b /\ threadOf(a) = threadOf(b)
        /\ Subscribed(a) /\ Subscribed(b)
        /\ resolved[b] # None
        /\ activeObservers[threadOf(b)].observer = b

\* C1: a resumption Run has its delta and idle listeners on the cached
\* session at the moment it resolves the pending entry, and while its stream
\* is open they stay there, so the idle event that ends the resumed turn of
\* that session finds the Run listening.
C1_SubscribeBeforeResolve ==
    \A r \in Runs :
        resolved[r] # None =>
            /\ attachedAtResolve[r]
            /\ got[r] # None
            /\ obs[r] = "open" => (r \in deltaL[got[r]] /\ r \in idleL[got[r]])

\* a resumption Run was finished by the idle event of the turn it resumed
C1_Witness ==
    \E r \in Runs :
        /\ resolved[r] # None /\ attachedAtResolve[r]
        /\ handler[resolved[r]].session = got[r]
        /\ obs[r] = "complete"
        /\ Types(r) = <<"RUN_STARTED", "RUN_FINISHED">>

\* C3: pending.resolve is called at most once per tool call; an entry found
\* in the registry always belongs to a handler that is still suspended; a
\* later Run carrying an id that was already consumed resolves nothing.
C3_IdempotentConsumption ==
    /\ \A c \in ToolCallIds : resolveCalls[c] <= 1
    /\ \A c \in pendingToolCalls : handler[c].state = "blocked" /\ resolveCalls[c] = 0
    /\ \A a, b \in Runs : (resolved[a] # None /\ resolved[a] = resolved[b]) => a = b
    /\ \A a, b \in Runs :
          (a < b /\ resolved[a] # None /\ input[b].toolCallId = resolved[a]
             /\ input[b].isToolResultRequest /\ pc[b] = "done")
          => (resolved[b] = None /\ sendCount[b] = 1)

\* a second Run delivered the same tool result and took the fallback path
C3_Witness ==
    \E a, b \in Runs :
        /\ a < b /\ resolved[a] # None
        /\ input[b].isToolResultRequest /\ input[b].toolCallId = resolved[a]
        /\ pc[b] = "done" /\ sendCount[b] = 1
        /\ sentPrompt[b] = fallbackPrompt(input[b].toolCallId, input[b].toolResult)

Sessions == {s \in Runs : sessKind[s] # "none"}

\* C2: all the sessions the client made for a thread are one and the same
\* (createSession / resumeSession ran at most once per thread), and every
\* Run of a thread subscribed to that one session.
C2_OneSessionPerThread ==
    /\ \A s1, s2 \in Sessions : threadOf(s1) = threadOf(s2) => s1 = s2
    /\ \A a, b \in Runs :
          (got[a] # None /\ got[b] # None /\ threadOf(a) = threadOf(b)) => got[a] = got[b]

Terminal == {"RUN_FINISHED", "RUN_ERROR"}
Middle == {"TEXT_MESSAGE_CHUNK", "TOOL_CALL_CHUNK"}

\* C4: what a Run's consumer has received is RUN_STARTED, then chunks, then
\* at most one terminal event, which is last; the stream has ended (complete
\* or error) exactly when the terminal event has been delivered, RUN_FINISHED
\* on completion and RUN_ERROR on error; every run event names its own Run.
C4_StreamShape ==
    \A r \in Runs :
        LET n == Len(stream[r]) IN
        /\ Subscribed(r) <=> n > 0
        /\ n > 0 => stream[r][1] = RunStartedEvent(threadOf(r), r)
        /\ \A i \in 2..n : stream[r][i].type # "RUN_STARTED"
        /\ \A i \in 1..n : stream[r][i].type \in Terminal => i = n
        /\ \A i \in 2..n : i < n => stream[r][i].type \in Middle
        /\ obs[r] = "complete" <=> (n > 0 /\ stream[r][n] = RunFinishedEvent(threadOf(r), r))
        /\ obs[r] = "error" <=> (n > 0 /\ stream[r][n].type = "RUN_ERROR")

\* a Run that received text and then a human-in-the-loop handoff, on a thread
\* whose session went on to serve a later Run to its end
C4_Witness ==
    \E a, b \in Runs :
        /\ a < b /\ threadOf(a) = threadOf(b)
        /\ Types(a) = <<"RUN_STARTED", "TEXT_MESSAGE_CHUNK", "TOOL_CALL_CHUNK", "RUN_FINISHED">>
        /\ obs[b] = "complete"
        /\ \E c \in Runs : obs[c] = "error"

\* the client was told of tool call c: its dispatch reached some stream
Dispatched(c) ==
    \E b \in Runs : \E i \in 1..Len(stream[b]) :
        stream[b][i].type = "TOOL_CALL_CHUNK" /\ stream[b][i].id = c

\* a Run that resumed a dispatched tool call of the session cached for its
\* own thread
ResumedOwn(r) ==
    /\ resolved[r] # None
    /\ handler[resolved[r]].session = got[r]
    /\ Dispatched(resolved[r])

\* C5: a Run that resumes a handed-off tool call of its thread's session
\* makes no session and submits no prompt, and its stream eventually gets
\* RUN_FINISHED (unless its consumer goes away first).
C5_HandoffLiveness ==
    \A r \in Runs :
        [](ResumedOwn(r) =>
              /\ sendCount[r] = 0 /\ sessKind[r] = "none"
              /\ <>(obs[r] \in {"complete", "cancelled"}))

\* the same, for a turn in which no other tool call is left suspended
C5_SingleCall ==
    \A r \in Runs :
        []((ResumedOwn(r) /\ blockedHandlers(got[r]) = {}) =>
              <>(obs[r] \in {"complete", "cancelled"}))

\* a tool-result Run that, when it subscribes, finds no pending entry for its
\* id or no cached session for its thread
TakesFallback(r) ==
    /\ pc[r] = "created"
    /\ input[r].isToolResultRequest
    /\ (input[r].toolCallId \notin pendingToolCalls \/ sessionCache[threadOf(r)] = None)

HasError(r) == \E i \in 1..Len(stream[r]) : stream[r][i].type = "RUN_ERROR"

\* C6: a tool-result Run without suspension state touches no pending entry
\* when it subscribes; once its body has run without a failure it has
\* subscribed to a session, has called send exactly once, with the
\* synthesized prompt, and has no RUN_ERROR; and the idle event of that
\* session then ends its open stream with RUN_FINISHED.
C6_Fallback ==
    /\ [](\A r \in Runs :
            (input[r].isToolResultRequest /\ Subscribed(r) /\ resolved[r] = None) =>
               /\ pc[r] \in {"listSessions", "createSession"} => sendCount[r] = 0
               /\ pc[r] = "done" =>
                    /\ sendCount[r] = 1
                    /\ sentPrompt[r] = fallbackPrompt(input[r].toolCallId, input[r].toolResult)
                    /\ got[r] \in Sessions
                    /\ ~HasError(r)
                    /\ obs[r] = "open" => r \in idleL[got[r]])
    /\ [][\A r \in Runs :
            /\ (TakesFallback(r) /\ pc'[r] # "created") =>
                  /\ pendingToolCalls' = pendingToolCalls
                  /\ handler' = handler
                  /\ resolveCalls' = resolveCalls
                  /\ resolved'[r] = None
            /\ (/\ input[r].isToolResultRequest /\ resolved[r] = None
                /\ pc[r] = "done" /\ obs[r] = "open"
                /\ turns'[got[r]] < turns[got[r]]) =>
                  /\ obs'[r] = "complete"
                  /\ stream'[r] = Append(stream[r], RunFinishedEvent(threadOf(r), r))]_vars

\* a Run carrying an unknown tool-call id went through the fallback on the
\* cached session of its thread and was finished by the idle event
C6_Witness ==
    \E r \in Runs :
        /\ input[r].isToolResultRequest /\ resolved[r] = None
        /\ sessKind[r] = "none" /\ got[r] # None
        /\ sentPrompt[r] = fallbackPrompt(input[r].toolCallId, input[r].toolResult)
        /\ obs[r] = "complete"
        /\ Types(r) = <<"RUN_STARTED", "RUN_FINISHED">>

\* the step in which the session invokes the handler for tool call c
Invoked(c) == handler[c].state = "unused" /\ handler'[c].state # "unused"

\* C7: with a binding in place, the handler appends to the bound stream the
\* dispatch of c and, right after it, RUN_FINISHED with the binding's run id,
\* and completes that stream; it registers c and is suspended; it has
\* returned only if c was resolved.
C7_Handoff ==
    /\ [][\A c \in ToolCallIds : Invoked(c) =>
            LET s == handler'[c].session
                b == activeObservers[threadOf(s)]
            IN b # NoActive =>
                 /\ handler'[c].state = "blocked"
                 /\ pendingToolCalls' = pendingToolCalls \cup {c}
                 /\ obs[b.observer] = "open" =>
                      /\ \E n \in input[s].tools :
                            stream'[b.observer] = stream[b.observer] \o
                                <<ToolCallChunkEvent(c, n),
                                  RunFinishedEvent(threadOf(s), b.runId)>>
                      /\ obs'[b.observer] = "complete"]_vars
    /\ [](\A c \in ToolCallIds :
            /\ handler[c].state = "blocked" => c \in pendingToolCalls
            /\ handler[c].state = "returned" =>
                  resolveCalls[c] = 1 /\ c \notin pendingToolCalls)

\* a handler handed its call to the client and is suspended
C7_Witness ==
    \E c \in ToolCallIds, r \in Runs :
        /\ handler[c].state = "blocked" /\ c \in pendingToolCalls
        /\ obs[r] = "complete"
        /\ stream[r] = <<RunStartedEvent(threadOf(r), r),
                         ToolCallChunkEvent(c, "fetch_weather"),
                         RunFinishedEvent(threadOf(r), r)>>

\* C8: a tool call of session s is emitted on the stream of the Run of the
\* thread that subscribed last, with that Run's id, and on no other stream.
C8_RoutesToCurrent ==
    [][\A c \in ToolCallIds : Invoked(c) =>
          LET s == handler'[c].session
              b == LatestRun(threadOf(s))
          IN /\ \A r \in Runs \ {b} : stream'[r] = stream[r] /\ obs'[r] = obs[r]
             /\ obs[b] = "open" =>
                  /\ Len(stream'[b]) = Len(stream[b]) + 2
                  /\ stream'[b][Len(stream[b]) + 1].type = "TOOL_CALL_CHUNK"
                  /\ stream'[b][Len(stream[b]) + 1].id = c
                  /\ stream'[b][Len(stream[b]) + 2] = RunFinishedEvent(threadOf(b), b)]_vars

\* the handler of a session built during Run a dispatched on the stream of a
\* later Run b
C8_Witness ==
    \E a, b \in Runs, c \in ToolCallIds :
        /\ a < b /\ sessKind[a] # "none" /\ handler[c].session = a
        /\ got[b] = a
        /\ \E i \in 1..Len(stream[b]) :
              /\ stream[b][i].type = "TOOL_CALL_CHUNK" /\ stream[b][i].id = c
              /\ stream[b][i + 1] = RunFinishedEvent(threadOf(b), b)
        /\ ~\E i \in 1..Len(stream[a]) : stream[a][i].type = "TOOL_CALL_CHUNK"

\* a newer Run of the same thread has subscribed
Older(a) == \E b \in Runs : a < b /\ threadOf(a) = threadOf(b) /\ Subscribed(a) /\ Subscribed(b)

Added(r) == {stream'[r][i] : i \in (Len(stream[r]) + 1)..Len(stream'[r])}

\* C10 as claimed: once a newer Run of its thread has subscribed, an older
\* Run's stream gets nothing more.
C10_OlderGetsNothing ==
    [][\A a \in Runs : Older(a) => stream'[a] = stream[a]]_vars

\* C10 amended: once a newer Run of its thread has subscribed, an older Run's
\* stream gets no tool-call dispatch (nor the run-finished of a handoff);
\* the tool call goes to the newest Run's stream if that is open.
C10_OlderGetsNoToolEvents ==
    [][/\ \A a \in Runs : Older(a) =>
             /\ \A e \in Added(a) : e.type # "TOOL_CALL_CHUNK"
             /\ \A c \in ToolCallIds : Invoked(c) => stream'[a] = stream[a]
       /\ \A c \in ToolCallIds : Invoked(c) =>
             LET b == LatestRun(threadOf(handler'[c].session))
             IN obs[b] = "open" =>
                  \E e \in Added(b) : e.type = "TOOL_CALL_CHUNK" /\ e.id = c]_vars

HasText(r) == \E i \in 1..Len(stream[r]) : stream[r][i].type = "TEXT_MESSAGE_CHUNK"

\* two open Runs of a thread both got the text of the turn, and the tool call
\* went to the newer one only
C10_Witness ==
    \E a, b \in Runs :
        /\ a < b /\ threadOf(a) = threadOf(b)
        /\ Types(a) = <<"RUN_STARTED", "TEXT_MESSAGE_CHUNK">>
        /\ Types(b) = <<"RUN_STARTED", "TEXT_MESSAGE_CHUNK", "TOOL_CALL_CHUNK", "RUN_FINISHED">>
        /\ obs[a] = "open"

\* C11: a Run whose idle listener has run has no listener left on any
\* session, so no later delta or idle event can reach it; if its stream was
\* open when the session went idle, the stream got RUN_FINISHED as its last
\* event and is complete.
C11_TerminationOnIdle ==
    \A r \in Runs :
        /\ idleSaw[r] # "never" =>
              /\ obs[r] # "open"
              /\ \A s \in Runs : r \notin deltaL[s] /\ r \notin idleL[s]
        /\ idleSaw[r] = "open" =>
              /\ obs[r] = "complete"
              /\ stream[r][Len(stream[r])] = RunFinishedEvent(threadOf(r), r)

\* a Run was finished by the idle event, and its session has since run a
\* later turn, for another Run, to its end
C11_Witness ==
    \E a, b \in Runs :
        /\ a < b /\ got[a] # None /\ got[a] = got[b]
        /\ idleSaw[a] = "open" /\ idleSaw[b] = "open"
        /\ HasText(b) /\ ~HasText(a)

\* C12: a Run whose consumer has unsubscribed has no listener on any session,
\* at the teardown and ever after.
C12_NoListenerAfterCancel ==
    \A r \in Runs :
        obs[r] = "cancelled" => \A s \in Runs : r \notin deltaL[s] /\ r \notin idleL[s]

\* C13: whatever the outcomes of the Runs so far (finished, failed, handed
\* off, cancelled), every session that was made is still the one cached for
\* its thread, every suspended handler still has its entry in the registry,
\* and an entry is gone only if a Run resolved that very call.
C13_OutcomesKeepSession ==
    /\ \A s \in Sessions : sessionCache[threadOf(s)] = s
    /\ \A c \in ToolCallIds :
          /\ handler[c].state = "blocked" => c \in pendingToolCalls
          /\ (handler[c].state # "unused" /\ c \notin pendingToolCalls) =>
                \E r \in Runs : resolved[r] = c

\* a tool call handed off by Run q was resolved by Run b after the consumer of
\* Run a, on the same session, had gone away in between, and the session ran
\* on to its idle event
C13_Witness ==
    \E q, a, b \in Runs, c \in ToolCallIds :
        /\ q < a /\ a < b /\ got[q] = got[a] /\ got[a] = got[b] /\ got[b] # None
        /\ \E i \in 1..Len(stream[q]) :
              stream[q][i].type = "TOOL_CALL_CHUNK" /\ stream[q][i].id = c
        /\ obs[a] = "cancelled"
        /\ resolved[b] = c /\ handler[c].state = "returned"
        /\ idleSaw[b] = "open"

\* C14: a Run whose getSession or send call threw, and whose consumer had not
\* gone away, has received exactly one RUN_ERROR, as its last event, carrying
\* the message of the thrown Error ("Unknown error" for any other value); its
\* stream has ended with that error; and send was called at most once, not
\* at all if getSession threw.
C14_SubmissionFailure ==
    \A r \in Runs :
        (pc[r] = "failed" /\ obs[r] # "cancelled") =>
            LET n == Len(stream[r])
                expected == IF thrown[r].isError THEN thrown[r].message ELSE "Unknown error"
            IN /\ thrown[r] \in Thrown
               /\ obs[r] = "error"
               /\ stream[r][n] = RunErrorEvent(threadOf(r), r, expected)
               /\ \A i \in 1..n : stream[r][i].type = "RUN_ERROR" => i = n
               /\ sendCount[r] <= 1
               /\ got[r] = None => sendCount[r] = 0

\* a Run failed in send with something that is not an Error
C14_Witness ==
    \E r \in Runs :
        /\ pc[r] = "failed" /\ obs[r] = "error"
        /\ sendCount[r] = 1 /\ ~thrown[r].isError
        /\ stream[r] = <<RunStartedEvent(threadOf(r), r),
                         RunErrorEvent(threadOf(r), r, "Unknown error")>>

\* the case of C15 cannot arise: a handler belongs to a session, getSession
\* makes a session only after the Run has written the binding of the thread,
\* and bindings are never deleted
HandlerAlwaysBound ==
    \A s \in Sessions : activeObservers[threadOf(s)] # NoActive

\* C16: a tool call that is registered as pending was told to the client:
\* its dispatch, followed by RUN_FINISHED, was delivered on some stream.
C16_SuspendsOnlyIfDelivered ==
    \A c \in pendingToolCalls :
        \E b \in Runs : \E i \in 1..(Len(stream[b]) - 1) :
            /\ stream[b][i].type = "TOOL_CALL_CHUNK" /\ stream[b][i].id = c
            /\ stream[b][i + 1].type = "RUN_FINISHED"

\* C17: the client's copy of the shared state of a thread, to which every
\* delivered state delta has been applied, equals the mirror of the thread's
\* session.
C17_Convergence ==
    \A s \in Sessions : clientState[threadOf(s)] = localState[s]

ValidationErrors ==
    {Failure("Invalid operation: each operation must have 'op' and 'path' fields", ""),
     Failure("Operation requires a 'value' field", "add"),
     Failure("Operation requires a 'value' field", "replace")}

\* C18: an update_state call whose batch has a malformed operation returns
\* failure with one of the validation errors, has emitted no state delta, and
\* the mirror of its session is what it was before the call, whatever
\* well-formed operations came first in the batch.
C18_WholesaleValidation ==
    upd.malformed =>
        /\ upd.result \in ValidationErrors
        /\ ~upd.emitted
        /\ localState[upd.session] = upd.before

\* a replace without value was rejected although the operation before it
\* was well-formed and would have changed the mirror
C18_Witness ==
    /\ upd.n > 0 /\ upd.malformed /\ upd.prefix
    /\ upd.result = Failure("Operation requires a 'value' field", "replace")
    /\ localState[upd.session] = upd.before
    /\ \E r \in Runs : obs[r] = "open" /\ Types(r) = <<"RUN_STARTED">>

\* C20: the step of an update_state call registers no pending tool call,
\* suspends no handler, leaves every stream as open or closed as it was and
\* the session's turn as it was, adds to a stream at most the state delta
\* (never RUN_FINISHED), and has its structured result when it ends.
C20_UpdateNeverSuspends ==
    [][upd'.n # upd.n =>
          /\ pendingToolCalls' = pendingToolCalls
          /\ handler' = handler
          /\ obs' = obs
          /\ turns' = turns
          /\ deltaL' = deltaL /\ idleL' = idleL
          /\ \A r \in Runs :
                \/ stream'[r] = stream[r]
                \/ /\ upd'.result.success
                   /\ stream'[r] = Append(stream[r], StateDeltaEvent(upd'.delta))
          /\ upd'.result.success \in BOOLEAN
          /\ upd'.result.text # "not called"]_vars

\* a Run received a state delta in mid-turn, then text, and was finished by the
\* idle event of that turn
C20_Witness ==
    \E r \in Runs :
        /\ upd.n > 0 /\ upd.result.success /\ upd.session = got[r]
        /\ Types(r) = <<"RUN_STARTED", "STATE_DELTA", "TEXT_MESSAGE_CHUNK", "RUN_FINISHED">>
        /\ idleSaw[r] = "open"
        /\ pendingToolCalls = {}

\* the supplied keys over the previous mirror
Merged == [k \in Keys |-> IF upd.updates[k] # Absent THEN upd.updates[k]
                                                     ELSE upd.before[k]]

StateDeltas(r) == {i \in 1..Len(stream[r]) : stream[r][i].type = "STATE_DELTA"}

\* C19: after an update_state call of the partial-merge reconciler the result
\* is success and the mirror is the supplied keys merged over the previous
\* mirror; the call emitted a state delta exactly if that differs from the
\* previous mirror, and the delta turns the previous mirror into the new
\* one; a call that changes nothing emits nothing and leaves the stream as
\* it was; the client, applying the deltas, has the mirror's document.
C19_PartialMerge ==
    upd.n > 0 =>
        /\ upd.result = Success("State updated", 0)
        /\ localState[upd.session] = Merged
        /\ upd.emitted <=> Merged # upd.before
        /\ upd.emitted => applyPatch(upd.before, upd.delta) = [ok |-> TRUE, newDocument |-> Merged]
        /\ ~upd.emitted => upd.delta = <<>>
        /\ Cardinality(StateDeltas(upd.session)) <= upd.n
        /\ (upd.n = 1 /\ ~upd.emitted) => StateDeltas(upd.session) = {}
        /\ clientState[threadOf(upd.session)] = localState[upd.session]

\* a first call changed the title and kept the other key, a second call
\* supplied the same title again: one state delta, two successes
C19_Witness ==
    /\ upd.n = 2 /\ ~upd.emitted /\ upd.result.success
    /\ upd.updates["title"] = "stew" /\ upd.updates["servings"] = Absent
    /\ upd.before["title"] = "stew" /\ upd.before["servings"] = "soup"
    /\ Cardinality(StateDeltas(upd.session)) = 1
    /\ \E i \in StateDeltas(upd.session) :
          stream[upd.session][i].data =
              <<[op |-> "replace", path |-> PathOf["title"], value |-> "stew"]>>

\* the index of the last message of the list with role user or tool, 0 if
\* the list has none
RECURSIVE LastRelevant(_)
LastRelevant(messages) ==
    IF messages = <<>> THEN 0
    ELSE IF messages[Len(messages)].role \in {"user", "tool"} THEN Len(messages)
    ELSE LastRelevant(SubSeq(messages, 1, Len(messages) - 1))

IsText(part) == part.type = "text"

RECURSIVE Concat(_)
Concat(parts) == IF parts = <<>> THEN "" ELSE Head(parts).text \o Concat(Tail(parts))

\* the text of a message: its string content, or its text parts put together
TextOf(m) == IF m.isArray THEN Concat(SelectSeq(m.parts, IsText)) ELSE m.content

\* C21 as claimed: a Run is classified as a tool-result Run exactly if the
\* last user-or-tool message of its request is a tool message; otherwise the
\* prompt it submits is the text of that last user message.
C21_Classification ==
    \A r \in Runs : pc[r] # "none" =>
        LET i == LastRelevant(request) IN
        /\ input[r].isToolResultRequest <=> (i > 0 /\ request[i].role = "tool")
        /\ (i > 0 /\ request[i].role = "user") =>
              /\ input[r].userPrompt = TextOf(request[i])
              /\ sendCount[r] = 1 => sentPrompt[r] = <<TextOf(request[i])>>

\* C21 amended: the classification is as claimed, and the prompt submitted
\* for a fresh turn is the text of the last user message when that text is not
\* empty; when it is empty, or the request has no user or tool message at
\* all, the Run is a fresh turn that submits the default prompt. A tool-result
\* Run carries the id and content of that last tool message.
C21_ClassificationDefault ==
    \A r \in Runs : pc[r] # "none" =>
        LET i == LastRelevant(request)
            text == IF i > 0 /\ request[i].role = "user" THEN TextOf(request[i]) ELSE ""
        IN /\ input[r].isToolResultRequest <=> (i > 0 /\ request[i].role = "tool")
           /\ input[r].userPrompt = text
           /\ input[r].isToolResultRequest =>
                 /\ input[r].toolCallId = request[i].toolCallId
                 /\ input[r].toolResult = request[i].content
           /\ (~input[r].isToolResultRequest /\ sendCount[r] = 1) =>
                 sentPrompt[r] = <<IF text = "" THEN DefaultPrompt ELSE text>>

\* a tool result followed by an assistant message and a multi-part user
\* message started a fresh turn with the joined text of that user message
C21_Witness ==
    /\ Len(request) = 3 /\ request[1].role = "tool" /\ request[2].role = "assistant"
    /\ request[3].isArray
    /\ ~input[1].isToolResultRequest
    /\ sentPrompt[1] = <<"good day">>
    /\ obs[1] = "complete"

\* the Run calls getSession in the step it is subscribed: it is a fresh turn
\* or takes the fallback
CallsGetSession(r) ==
    pc[r] = "created" /\ (~input[r].isToolResultRequest \/ TakesFallback(r))

\* C22: a Run that calls getSession gets the session cached for its thread
\* if there is one, and then no session is made and the cache stays as it
\* is; otherwise it asks the lister, and the session it then gets is resumed
\* if the lister reported the thread's id and created if not, and is in the
\* cache under the thread's id when the Run gets it.
C22_GetSession ==
    [][\A r \in Runs :
          LET t == threadOf(r) IN
          /\ (CallsGetSession(r) /\ pc'[r] # "created") =>
                IF sessionCache[t] # None
                THEN /\ got'[r] = sessionCache[t]
                     /\ sessionCache' = sessionCache /\ sessKind' = sessKind
                     /\ listed' = listed
                     /\ pc'[r] \in {"done", "failed"}
                ELSE /\ pc'[r] = "listSessions"
                     /\ got'[r] = None
                     /\ sessionCache' = sessionCache /\ sessKind' = sessKind
          /\ (pc[r] = "listSessions" /\ pc'[r] = "createSession") =>
                existing'[r] = (t \in listed)
          /\ (pc[r] = "createSession" /\ pc'[r] # "createSession") =>
                IF got'[r] # None
                THEN /\ got'[r] = r /\ sessKind[r] = "none"
                     /\ sessKind'[r] = IF existing[r] THEN "resumed" ELSE "created"
                     /\ sessionCache'[t] = r
                ELSE sessionCache' = sessionCache /\ sessKind' = sessKind]_vars

\* after a restart a Run resumed the session the lister reported, and the
\* next Run of the thread got that session from the cache
C22_Witness ==
    \E a, b \in Runs :
        /\ a < b /\ sessKind[a] = "resumed" /\ got[a] = a
        /\ got[b] = a /\ sessKind[b] = "none" /\ sendCount[b] = 1
        /\ sessionCache[threadOf(a)] = a

Replied(status) ==
    del.pc = "done" /\ \E i \in 1..Len(del.responses) : del.responses[i].status = status

\* C23: when DELETE has replied 200 for a thread, the registry held no
\* session for that thread at the reply, and no Run begun after the reply has
\* got a session that was cached before it.
C23_DeleteEvictsCache ==
    Replied(200) =>
        /\ del.cached = None
        /\ \A r \in Runs \ del.started : got[r] = None \/ got[r] \notin del.started

\* C24: a DELETE request that is over has written exactly one reply: 200 if
\* the lister had the id and nothing threw, 404 if the listing went through
\* without the id, 500 with the message of what was thrown otherwise; before
\* that, no reply; and no step of the request changes the client's store but
\* the one that ends in 200, which removes that id.
C24_DeleteStatus ==
    /\ [](del.pc \notin {"none", "done"} => del.responses = <<>>)
    /\ [](del.pc = "done" =>
            /\ Len(del.responses) = 1
            /\ LET reply == del.responses[1] IN
               /\ reply.status \in {200, 404, 500}
               /\ reply.status = 200 <=> (del.found /\ del.failedAt = "")
               /\ reply.status = 404 <=> (~del.found /\ del.failedAt = "")
               /\ reply.status = 500 <=> del.failedAt # ""
               /\ reply.success <=> reply.status = 200
               /\ reply.status = 500 =>
                     reply.text = IF del.thrown.isError THEN del.thrown.message
                                                       ELSE "something went wrong")
    /\ [][del' # del =>
            listed' = IF del'.pc = "done" /\ del'.responses[1].status = 200
                      THEN listed \ {del.sessionId} ELSE listed]_vars

\* deleteSession threw for a session the lister had reported: 500, and the
\* session is still in the client's store
C24_Witness ==
    /\ Replied(500) /\ del.found /\ del.failedAt = "deleteSession"
    /\ del.sessionId \in listed
    /\ ~del.thrown.isError

TornDown(r) == obs[r] \in {"complete", "error", "cancelled"}

\* C25: once the stream of a Run of the explicit-lifetime agent has been
\* torn down, and the abort its teardown started is over, the agent holds no
\* session, and the session it made, if any, has been destroyed.
C25_TeardownReleases ==
    \A r \in Runs :
        (TornDown(r) /\ sessKind[r] # "aborting") =>
            session[r] = None /\ sessKind[r] \in {"none", "destroyed"}

Written(r) == [i \in 1..Len(stream[r]) |-> Sse(stream[r][i])]

\* what holds of every request whatever ended its response: a refused
\* request got 406 and started no Run; an accepted one got 200 and one record
\* per emitted event, in the order of emission
ResponseBody ==
    \A r \in Runs :
        /\ pc[r] = "rejected" =>
              /\ res[r].status = 406 /\ res[r].ended
              /\ input[r] = NoInput /\ obs[r] = "unsubscribed" /\ stream[r] = <<>>
        /\ res[r].status = 406 => pc[r] = "rejected"
        /\ Subscribed(r) => res[r].status = 200 /\ res[r].body = Written(r)
        /\ obs[r] = "error" => res[r].body[Len(res[r].body)][2].json.type = "RUN_ERROR"

\* C26 as claimed: the body of the response is as above, and the response
\* of an accepted request is ended exactly if its Run has completed or
\* errored.
C26_ResponseFollowsRun ==
    /\ ResponseBody
    /\ \A r \in Runs : Subscribed(r) => (res[r].ended <=> obs[r] \in {"complete", "error"})

\* C26 amended: the response of an accepted request is ended by the Run's
\* completion, by the Run's error (the run-error record being the last one
\* written), or by an error of the request, which cancels the Run and ends
\* the response without a terminal record; it is not ended otherwise.
C26_ResponseEnds ==
    /\ ResponseBody
    /\ \A r \in Runs : Subscribed(r) =>
          /\ obs[r] = "complete" <=> res[r].endedBy = "complete"
          /\ obs[r] = "error" <=> res[r].endedBy = "error"
          /\ res[r].endedBy = "requestError" => obs[r] = "cancelled"
          /\ res[r].ended <=> res[r].endedBy \in {"complete", "error", "requestError"}
          /\ obs[r] = "open" => ~res[r].ended

\* one request was refused, and a later one streamed text until an error of
\* the request ended its response
C26_Witness ==
    \E a, b \in Runs :
        /\ a < b /\ pc[a] = "rejected"
        /\ res[b].endedBy = "requestError"
        /\ res[b].body = <<Sse(RunStartedEvent(threadOf(b), b)), Sse(TextMessageChunkEvent(1, "delta"))>>

\* C27: a Run that resolved a pending tool call is a Run of the thread whose
\* session's handler registered that call; so a handler is only ever
\* unblocked by a Run of its own thread.
C27_PendingScopedToThread ==
    \A r \in Runs :
        resolved[r] # None => threadOf(handler[resolved[r]].session) = threadOf(r)

\* the step is the subscription of a tool-result Run that carries c and
\* finds a session cached for its thread
ResumptionWith(c) ==
    \E r \in Runs :
        /\ pc[r] = "created" /\ pc'[r] # "created"
        /\ input[r].isToolResultRequest /\ input[r].toolCallId = c
        /\ sessionCache[threadOf(r)] # None
        /\ resolved'[r] = c

\* C28: an entry leaves the registry, and a suspended handler returns, only
\* in the step of a resumption Run that carries its tool-call id and finds a
\* session cached for its thread.
C28_NoExpiry ==
    [][\A c \in ToolCallIds :
          /\ (c \in pendingToolCalls /\ c \notin pendingToolCalls') => ResumptionWith(c)
          /\ (handler[c].state = "blocked" /\ handler'[c] # handler[c]) => ResumptionWith(c)
          /\ resolveCalls'[c] # resolveCalls[c] => ResumptionWith(c)]_vars

\* a suspended call is still registered after the Run that handed it off
\* has finished, a fresh turn on the same session was cancelled and a
\* tool-result Run with another id went through the fallback
C28_Witness ==
    \E q, a, b \in Runs, c \in ToolCallIds :
        /\ q < a /\ a < b
        /\ c \in pendingToolCalls /\ handler[c].state = "blocked"
        /\ obs[q] = "complete" /\ got[q] = handler[c].session
        /\ ~input[a].isToolResultRequest /\ got[a] = got[q] /\ obs[a] = "cancelled"
        /\ input[b].isToolResultRequest /\ input[b].toolCallId # c
        /\ resolved[b] = None /\ sendCount[b] = 1 /\ got[b] = got[q]

\* the step in which getSession or send of Run r throws
Fails(r) == pc[r] # "failed" /\ pc'[r] = "failed"

\* C29: the step in which a Run of thread T fails leaves the pending
\* tool-call registry and every handler as they were, leaves the session
\* registry as it was but for the session that the Run's own getSession call
\* has just stored for T, leaves the binding of every other thread as it was,
\* and neither ends nor adds an event to the stream of any Run of another
\* thread.
C29_FailureScoped ==
    [][\A r \in Runs : Fails(r) =>
          LET T == threadOf(r) IN
          /\ pendingToolCalls' = pendingToolCalls
          /\ handler' = handler
          /\ \/ sessionCache' = sessionCache
             \/ /\ pc[r] = "createSession" /\ sessKind[r] = "none" /\ sessKind'[r] # "none"
                /\ sessionCache' = [sessionCache EXCEPT ![T] = r]
          /\ \A t \in Threads \ {T} : activeObservers'[t] = activeObservers[t]
          /\ \A q \in Runs :
                (q # r /\ threadOf(q) # T) => stream'[q] = stream[q] /\ obs'[q] = obs[q]]_vars

\* the send of a Run failed while an earlier Run of another thread was in
\* mid-turn with its stream open
C29_Witness ==
    \E a, b \in Runs :
        /\ b < a /\ threadOf(a) # threadOf(b) /\ threadOf(b) # None
        /\ pc[a] = "failed" /\ obs[a] = "error" /\ sendCount[a] = 1
        /\ obs[b] = "open" /\ got[b] # None /\ turns[got[b]] > 0
        /\ Types(b) = <<"RUN_STARTED">>

\* C30: a handler that has returned was resolved by a Run whose request
\* ends, as far as user and tool messages go, in a tool message with the
\* handler's tool-call id, and what it returned is the content of that
\* message as it stands; a handler that is still suspended has not been
\* resolved by any Run.
C30_ResultVerbatim ==
    \A c \in ToolCallIds :
        /\ handler[c].state = "returned" =>
              \E r \in Runs :
                  LET messages == IF r = 1 THEN <<UserMsg("hello")>> ELSE request
                      i == LastRelevant(messages)
                  IN /\ resolved[r] = c /\ resolveCalls[c] = 1
                     /\ i > 0 /\ messages[i].role = "tool"
                     /\ messages[i].toolCallId = c
                     /\ handler[c].result = messages[i].content
        /\ handler[c].state = "blocked" => \A r \in Runs : resolved[r] # c

\* a tool result with empty content, the last of two messages, was handed to
\* the suspended handler as the empty string, and the turn ran on to its end
C30_Witness ==
    \E c \in ToolCallIds :
        /\ handler[c].state = "returned" /\ handler[c].result = ""
        /\ Len(request) = 2 /\ request[2] = ToolMsg(c, "")
        /\ request[1].role = "tool" /\ request[1].content = "18C"
        /\ resolved[2] = c /\ obs[2] = "complete"

\* the Runs that have submitted a prompt to session s
Senders(s) == {r \in Runs : sentWith[r].called /\ got[r] = s}

\* the step in which session s emits session.idle
IdleOf(s) == turns'[s] < turns[s]

\* what holds of a Run at the moment it calls send: its thread is bound to it
\* or to a newer Run of the thread, and its two listeners are on the session
BoundAndListening(r) ==
    /\ sentWith[r].attached
    /\ sentWith[r].binding # NoActive
    /\ sentWith[r].binding.runId >= r
    /\ sentWith[r].binding.observer = sentWith[r].binding.runId
    /\ threadOf(sentWith[r].binding.runId) = threadOf(r)

\* C31 as claimed: a Run that calls send does so with its thread bound (to it
\* or to a newer Run) and with its listeners subscribed; every tool
\* invocation of a session a Run has sent a prompt to finds the thread bound
\* to that Run or a newer one; and every idle event of such a session finds a
\* listener attached.
C31_FreshTurnOrdering ==
    /\ [](\A r \in Runs : sentWith[r].called => BoundAndListening(r))
    /\ [][/\ \A c \in ToolCallIds : Invoked(c) =>
                 LET b == activeObservers[threadOf(handler'[c].session)]
                 IN /\ b # NoActive
                    /\ \A r \in Senders(handler'[c].session) : b.runId >= r
          /\ \A s \in Runs : (IdleOf(s) /\ Senders(s) # {}) => idleL[s] # {}]_vars

\* C31 amended: the ordering and the binding found by tool invocations are
\* as claimed; the idle event finds the listener of every Run that has sent
\* a prompt to the session and whose stream is still open, and such a Run
\* keeps both its listeners as long as its stream is open.
C31_FreshTurnOrderingWhileOpen ==
    /\ [](\A r \in Runs : sentWith[r].called =>
             /\ BoundAndListening(r)
             /\ obs[r] = "open" => (r \in deltaL[got[r]] /\ r \in idleL[got[r]]))
    /\ [][/\ \A c \in ToolCallIds : Invoked(c) =>
                 LET b == activeObservers[threadOf(handler'[c].session)]
                 IN /\ b # NoActive
                    /\ \A r \in Senders(handler'[c].session) : b.runId >= r
          /\ \A s \in Runs : IdleOf(s) =>
                 \A r \in Senders(s) :
                     obs[r] = "open" =>
                        /\ r \in idleL[s]
                        /\ obs'[r] = "complete"
                        /\ stream'[r] = Append(stream[r], RunFinishedEvent(threadOf(r), r))]_vars

\* a Run sent its prompt when a newer Run of its thread already held the
\* binding; the turn dispatched a tool call, on the newer Run's stream, while
\* the older Run was open and listening
C31_Witness ==
    \E a, b \in Runs, c \in ToolCallIds :
        /\ a < b /\ sentWith[a].called /\ sentWith[a].attached
        /\ sentWith[a].binding = [observer |-> b, runId |-> b]
        /\ ~input[a].isToolResultRequest
        /\ handler[c].session = got[a]
        /\ \E i \in 1..Len(stream[b]) :
              stream[b][i].type = "TOOL_CALL_CHUNK" /\ stream[b][i].id = c
        /\ obs[a] = "open" /\ a \in idleL[got[a]]

\* C32: an update_state call, made with the thread bound, whose batch passes
\* the field validation and fails at some operation when applied returns a
\* failure result and changes nothing: every mirror is what it was before the
\* call (whatever the operations before the failing one did), no stream has
\* got an event, and the client's copy is untouched.
C32_AtomicApplication ==
    [][(/\ upd'.n = upd.n + 1
        /\ upd'.failsAt > 0
        /\ activeObservers[threadOf(upd'.session)] # NoActive) =>
            /\ upd'.result = Failure("Failed to apply state patch", "")
            /\ ~upd'.emitted
            /\ upd'.before = localState[upd'.session]
            /\ localState' = localState
            /\ stream' = stream
            /\ clientState' = clientState]_vars

\* a batch whose first operation would have changed the mirror failed at its
\* second operation, on the open stream of the Run, and the mirror is what it
\* was
C32_Witness ==
    /\ upd.n > 0 /\ ~upd.malformed /\ upd.prefix /\ upd.failsAt = 2
    /\ upd.result = Failure("Failed to apply state patch", "")
    /\ localState[upd.session] = upd.before
    /\ obs[upd.session] = "open"
    /\ StateDeltas(upd.session) = {}

\* the step in which getSession makes session s (created or resumed)
Made(s) == sessKind[s] = "none" /\ sessKind'[s] # "none"

\* the step is a successful update_state call on session s
Updated(s) == upd'.n = upd.n + 1 /\ upd'.session = s /\ upd'.result.success

\* C34: when a session is made its mirror is the state snapshot of the Run
\* that makes it (the empty document if the request has none); after that
\* the mirror changes only in a successful update_state call on that session,
\* so a later Run that gets the cached session leaves the mirror alone
\* whatever snapshot it carries.
C34_SeededOnce ==
    /\ [][\A s \in Runs :
            /\ Made(s) => localState'[s] = orEmpty(input[s].state)
            /\ (~Made(s) /\ localState'[s] # localState[s]) => Updated(s)]_vars
    /\ [](\A s \in Sessions : upd.n = 0 => localState[s] = orEmpty(input[s].state))

\* a second Run carrying a different snapshot got the cached session, which
\* an earlier process had left to be resumed, and was served to its end; the
\* mirror is still the first Run's snapshot
C34_Witness ==
    \E a, b \in Runs :
        /\ a < b /\ got[b] = a /\ sessKind[a] = "resumed"
        /\ input[a].state.defined /\ input[b].state.defined
        /\ input[a].state # input[b].state
        /\ sendCount[b] = 1 /\ obs[b] = "complete"
        /\ upd.n = 0
        /\ localState[a] = input[a].state.doc

\* the body of Run r has run to its end, or to the failure that ended it
BodyOver(r) == pc[r] \in {"done", "failed"}

\* C35: a Run calls send at most once. A Run that found the pending entry
\* and the cached session when it was subscribed never calls send; any other
\* Run has called send exactly once when its body is over, unless getSession
\* failed, and then it has not called it; while getSession is awaited nothing
\* has been sent.
C35_AtMostOnePrompt ==
    /\ [](\A r \in Runs :
            /\ sendCount[r] <= 1
            /\ sendCount[r] = 1 <=> sentWith[r].called
            /\ pc[r] \in {"none", "created", "listSessions", "createSession"} =>
                  sendCount[r] = 0
            /\ resolved[r] # None => sendCount[r] = 0
            /\ (BodyOver(r) /\ resolved[r] = None) =>
                  /\ sendCount[r] = (IF got[r] = None THEN 0 ELSE 1)
                  /\ got[r] = None => (pc[r] = "failed" /\ thrown[r] \in Thrown))
    /\ [][\A r \in Runs :
            (pc[r] = "created" /\ pc'[r] # "created") =>
                IF resumes(Cur, r)
                THEN resolved'[r] = input[r].toolCallId /\ sendCount'[r] = 0 /\ pc'[r] = "done"
                ELSE resolved'[r] = None]_vars

\* a fresh-turn Run sent one prompt, the Run that resumed its tool call sent
\* none and was served to the end, and a Run whose getSession failed sent
\* none
C35_Witness ==
    \E a, b, c \in Runs :
        /\ ~input[a].isToolResultRequest /\ sendCount[a] = 1 /\ obs[a] = "complete"
        /\ resolved[b] # None /\ got[b] = got[a] /\ sendCount[b] = 0 /\ idleSaw[b] = "open"
        /\ pc[c] = "failed" /\ got[c] = None /\ sendCount[c] = 0 /\ obs[c] = "error"

\* the step in which run(input) is called for Run r, and the step in which
\* the Observable it returned is subscribed
RunCalled(r) == pc[r] = "none" /\ pc'[r] = "created"
SubscribedIn(r) == pc[r] = "created" /\ pc'[r] # "created"

\* the three registries, the sessions and what the Runs have done to them
Registries ==
    <<activeObservers, pendingToolCalls, sessionCache, sessKind, listed, turns,
      handler, resolveCalls, resolved, deltaL, idleL, got, sendCount, sentPrompt,
      obs, stream, localState>>

\* C36: the call run(input) changes no registry, makes no session and
\* submits nothing; as long as the Observable is not subscribed the Run has
\* no binding, no listener, no session, has resolved no pending entry and has
\* sent no prompt; at subscription the binding is written, and a tool-result
\* Run resumes exactly if the pending entry of its id and the cached session
\* of its thread are in the registries at that moment.
C36_LazyStart ==
    /\ [][\A r \in Runs : RunCalled(r) => UNCHANGED Registries]_vars
    /\ [](\A r \in Runs :
            pc[r] \in {"none", "created"} =>
               /\ obs[r] = "unsubscribed" /\ stream[r] = <<>>
               /\ \A t \in Threads : activeObservers[t].runId # r
               /\ \A s \in Runs : r \notin deltaL[s] /\ r \notin idleL[s]
               /\ sessKind[r] = "none" /\ got[r] = None
               /\ resolved[r] = None /\ sendCount[r] = 0)
    /\ [][\A r \in Runs : SubscribedIn(r) =>
            /\ activeObservers'[threadOf(r)] = [observer |-> r, runId |-> r]
            /\ stream'[r][1] = RunStartedEvent(threadOf(r), r)
            /\ resolved'[r] # None <=>
                  /\ input[r].isToolResultRequest
                  /\ input[r].toolCallId \in pendingToolCalls
                  /\ sessionCache[threadOf(r)] # None
            /\ resolved'[r] # None =>
                  /\ resolved'[r] = input[r].toolCallId
                  /\ pendingToolCalls' = pendingToolCalls \ {input[r].toolCallId}
                  /\ got'[r] = sessionCache[threadOf(r)]]_vars

\* run(input) was called with a tool result while its tool call was pending,
\* but the Observable was subscribed only after a Run called later had
\* resolved that tool call: the earlier Run found no entry and fell back
C36_Witness ==
    \E b, c \in Runs :
        /\ b < c /\ threadOf(b) = threadOf(c)
        /\ input[b].isToolResultRequest /\ resolved[c] = input[b].toolCallId
        /\ handler[resolved[c]].session = got[c]
        /\ activeObservers[threadOf(b)].runId = b
        /\ resolved[b] = None /\ sendCount[b] = 1
        /\ sentPrompt[b] = fallbackPrompt(input[b].toolCallId, input[b].toolResult)

\* Run r is listening to the deltas of session s on an open stream
Forwarding(r, s) == r \in deltaL[s] /\ obs[r] = "open"

\* C37: when a session emits a message delta, the stream of every Run that
\* has its delta listener on the session and is open gets exactly one more
\* event, at its end: a text chunk with the message id and the content of
\* the delta; the other streams get nothing; and no other step puts a text
\* chunk on a stream. So the text chunks of a stream are the deltas emitted
\* while the Run was listening, each once, in the order of emission.
C37_TextForwarding ==
    [][/\ \A s \in Runs, event \in MessageDeltas :
             emitDelta(s, event, MaxTextDeltas) =>
                 \A r \in Runs :
                     IF Forwarding(r, s)
                     THEN /\ Len(stream'[r]) = Len(stream[r]) + 1
                          /\ SubSeq(stream'[r], 1, Len(stream[r])) = stream[r]
                          /\ stream'[r][Len(stream'[r])].type = "TEXT_MESSAGE_CHUNK"
                          /\ stream'[r][Len(stream'[r])].id = event.data.messageId
                          /\ stream'[r][Len(stream'[r])].data = event.data.deltaContent
                          /\ obs'[r] = "open" /\ r \in deltaL'[s]
                     ELSE stream'[r] = stream[r]
       /\ nDeltas' = nDeltas =>
             \A r \in Runs : \A e \in Added(r) : e.type # "TEXT_MESSAGE_CHUNK"]_vars

\* a Run received three deltas of two messages, as emitted, and was then
\* finished by the idle event
C37_Witness ==
    \E r \in Runs :
        /\ Len(stream[r]) = 5
        /\ stream[r][2] = TextMessageChunkEvent(1, "Hel")
        /\ stream[r][3] = TextMessageChunkEvent(1, "lo")
        /\ stream[r][4] = TextMessageChunkEvent(2, "Hel")
        /\ stream[r][5] = RunFinishedEvent(threadOf(r), r)
        /\ nDeltas = 3 /\ obs[r] = "complete"

\* the step is an action of session s: a delta, a tool invocation, an
\* update_state call or the idle event
SessionStep(s) ==
    \/ sessionDelta(s)
    \/ sessionIdle(s)
    \/ \E c \in ToolCallIds, n \in ToolNames : toolCall(s, c, n)
    \/ \E operations \in IsoBatches : updateState(s, operations)

\* the step changes what the consumer of Run r has got or the state of its
\* stream
Touched(r) == stream'[r] # stream[r] \/ obs'[r] # obs[r]

\* C38: a step of a session reaches only streams of Runs of the session's
\* own thread, and a stream is reached only by the body of its own Run or by
\* a session of its own thread; the listeners on a session, and the binding
\* of a thread, are always those of Runs of that thread.
C38_ThreadIsolation ==
    /\ [][/\ \A s \in Sessions :
                SessionStep(s) =>
                    \A r \in Runs : threadOf(r) # threadOf(s) => ~Touched(r)
          /\ \A r \in Runs :
                Touched(r) =>
                    \/ pc'[r] # pc[r]
                    \/ \E s \in Sessions : threadOf(s) = threadOf(r) /\ SessionStep(s)]_vars
    /\ [](/\ \A s \in Sessions : \A r \in deltaL[s] \cup idleL[s] : threadOf(r) = threadOf(s)
          /\ \A t \in Threads :
                activeObservers[t] # NoActive => threadOf(activeObservers[t].observer) = t)

\* a Run of one thread resolved a tool call of the other thread's session;
\* that session ran on to its idle event, and the Run, still open, has got
\* nothing but its own start
C38_Witness ==
    \E a, c \in Runs :
        /\ threadOf(a) # threadOf(c) /\ threadOf(c) # None
        /\ resolved[c] # None /\ handler[resolved[c]].session = a
        /\ handler[resolved[c]].state = "returned"
        /\ sendCount[a] = 1 /\ turns[a] = 0
        /\ obs[c] = "open" /\ stream[c] = <<RunStartedEvent(threadOf(c), c)>>

====
